---- MODULE Spec2Model ----
(***************************************************************************)
(* Request lifecycle of the AlterLab client (src/alterlab/client.py):      *)
(* the retrying transport (_request_with_retry and its async twin), the    *)
(* job poller (wait_for_job, get_job_status) and the facade operations     *)
(* built on them (scrape, estimate_cost, get_usage).                        *)
(*                                                                         *)
(* One call runs at a time.  The server and the network are the            *)
(* environment: every request is answered by a reply the environment       *)
(* chooses.  The blocking and the async methods have the same body up to   *)
(* time.sleep / asyncio.sleep, and one action stands for both.  Time is    *)
(* counted in whole seconds and advances by the duration of each sleep.    *)
(*                                                                         *)
(* Spec follows one call made through a blocking method and, in twin, the  *)
(* same call made through its async counterpart on the same replies.       *)
(* ScopeSpec follows the lifetime of the HTTP clients: _get_client,        *)
(* _get_async_client, close, aclose and the two scoped blocks.             *)
(***************************************************************************)
EXTENDS Integers, Sequences, FiniteSets, TLC

VARIABLES
    api_key,        \* self.api_key
    base_url,       \* self.base_url
    timeout,        \* self.timeout
    max_retries,    \* self.max_retries
    retry_delay,    \* self.retry_delay
    pc,             \* position of the call: idle, send, backoff, poll_sleep, done
    op,             \* the facade operation in progress
    sync,           \* scrape's sync argument
    poll_interval,  \* poll_interval argument
    poll_timeout,   \* poll_timeout argument
    attempt,        \* loop index of the current send
    requests,       \* history: HTTP requests issued by the current send
    retryable,      \* history: responses 429 / >= 500 seen by the current send
    throttled,      \* history: responses 429 seen by the current send
    netfails,       \* history: network failures seen by the current send
    sleeps,         \* history: sleeps started by the current send
    sleep,          \* the sleep in progress (or the last one)
    response,       \* outcome of the last request of the current send
    last_error,     \* last_error of the current send
    job_id,         \* job being polled
    start_time,     \* wait_for_job's start_time
    polls,          \* history: get_job_status calls of the poll loop
    nonterminal,    \* history: polls that yielded neither succeeded nor failed
    poll_sleeps,    \* history: poll-interval sleeps started
    status,         \* the JobStatus the last poll returned (none while a poll is in flight)
    result,         \* how the call ended: returned value or raised error
    now,            \* wall clock, seconds since the call began
    client,         \* self._client: the httpx.Client held (0: None)
    async_client,   \* self._async_client: the httpx.AsyncClient held (0: None)
    http,           \* every httpx.Client: unused, open or closed
    ahttp,          \* every httpx.AsyncClient: unused, open, scheduled or closed
    scope,          \* the scoped block: none, with, async_with, left
    propagated,     \* the body's exception left the block
    twin,           \* the same call made through the async method
    tasks,          \* the async calls running concurrently on one event loop
    loop,           \* the task holding the event loop's thread across a sleep (0: none)
    overtaken,      \* tasks that saw another task issue a request during their sleep
    input,          \* the function applied on its own, with its arguments
    output,         \* what that function returned or raised (pending before)
    callers         \* the threads and tasks calling into one instance at once

cfgvars  == <<api_key, base_url, timeout, max_retries, retry_delay>>
callvars == <<op, sync, poll_interval, poll_timeout>>
sendvars == <<attempt, requests, retryable, throttled, netfails, sleeps, sleep,
             response, last_error>>
pollvars == <<job_id, start_time, polls, nonterminal, poll_sleeps, status>>
lifevars == <<client, async_client, http, ahttp, scope, propagated>>
concvars == <<tasks, loop, overtaken>>
datavars == <<input, output>>
sidevars == <<concvars, datavars, callers>>
vars     == <<cfgvars, callvars, sendvars, pollvars, pc, result, now, lifevars,
             twin, sidevars>>

----------------------------------------------------------------------------
(* Bounds of the model *)

MaxRetries == 3     \* largest max_retries the constructor is given
MaxPolls   == 3     \* polls of one wait_for_job the model follows
MaxClients == 2     \* HTTP clients of each kind one instance creates
MaxTasks   == 2     \* calls running concurrently on one client
MaxEscalations == 2 \* longest escalations list of a billing payload

RetryDelays   == {1, 2}
PollIntervals == {1, 2}
PollTimeouts  == {1, 2}
JobIds        == {"j1"}

----------------------------------------------------------------------------
(* Values exchanged with the server *)

Absent == "<absent>"        \* a missing header / a missing JSON key

\* Retry-After as the server may send it: missing, empty, delay-seconds,
\* or an HTTP-date.
RetryAfterValues == {Absent, "", "2", "Wed, 21 Oct 2015 07:28:00 GMT"}

\* Python truthiness of headers.get(...) / data.get(...) on a string
Truthy(s) == s # Absent /\ s # ""

\* float(retry_after): the number, or nothing when Python raises ValueError
ParseFloat(s) ==
    CASE s = "0" -> {0}
      [] s = "2" -> {2}
      [] OTHER   -> {}

\* int(retry_after): the number, or nothing when Python raises ValueError
ParseInt(s) ==
    CASE s = "0" -> {0}
      [] s = "2" -> {2}
      [] OTHER   -> {}

Bodies == {"json_detail", "not_json"}

ClientErrorStatuses == {401, 402, 404, 422}
RetryableStatuses   == {429, 503}

NoData == [kind |-> "none"]

NetFail == [kind |-> "net"]

NoResponse == [kind |-> "none"]

ErrorReplies ==
    [kind : {"http"}, status_code : ClientErrorStatuses,
     retry_after : {Absent}, body : Bodies, data : {NoData}]
    \cup
    [kind : {"http"}, status_code : RetryableStatuses,
     retry_after : RetryAfterValues, body : Bodies, data : {NoData}]

\* the JSON value under "result": missing, or an object with optional keys
NoResultValue == [kind |-> "absent"]

ResultValues ==
    {NoResultValue} \cup [kind : {"dict"}, content : {Absent, "hello", "bye"}]

\* bodies of the job endpoint: a result comes with succeeded / completed (and,
\* to show it is ignored there, with pending), an error string with failed
JobBodies ==
    [kind : {"job"}, status : {Absent, "pending", "running"},
     result : {NoResultValue}, error : {Absent}]
    \cup
    [kind : {"job"}, status : {"succeeded", "completed"},
     result : ResultValues, error : {Absent}]
    \cup
    [kind : {"job"}, status : {"failed"},
     result : {NoResultValue}, error : {Absent, "", "boom"}]
    \cup
    {[kind |-> "job", status |-> "pending",
      result |-> [kind |-> "dict", content |-> "hello"], error |-> Absent]}

SubmitBodies ==
    [kind : {"scrape"}, job_id : {Absent} \cup JobIds, content : {Absent, "hello"}]

PlainBodies == {[kind |-> "plain"]}

OkReply(code, d) ==
    [kind |-> "http", status_code |-> code, retry_after |-> Absent,
     body |-> "not_json", data |-> d]

----------------------------------------------------------------------------
(* The exception hierarchy *)

NoError == [kind |-> "none"]

AlterLabError(msg) == [kind |-> "AlterLabError", message |-> msg]

AlterLabAPIError(code, msg) ==
    [kind |-> "AlterLabAPIError", status_code |-> code, message |-> msg]

AuthenticationError(code, msg) ==
    [kind |-> "AuthenticationError", status_code |-> code, message |-> msg]

InsufficientCreditsError(code, msg) ==
    [kind |-> "InsufficientCreditsError", status_code |-> code, message |-> msg]

ValidationError(code, msg) ==
    [kind |-> "ValidationError", status_code |-> code, message |-> msg]

\* retry_after is the optional int: {} for None, {n} for n
RateLimitError(msg, ra) ==
    [kind |-> "RateLimitError", status_code |-> 429, message |-> msg,
     retry_after |-> ra]

ScrapeError(code, msg, c) ==
    [kind |-> "ScrapeError", status_code |-> code, message |-> msg, code |-> c]

TimeoutError(j, t) ==
    [kind |-> "TimeoutError", message |-> "Job did not complete within timeout",
     job_id |-> j, poll_timeout |-> t]

\* Python's ValueError out of float() / int()
ValueError == [kind |-> "ValueError", message |-> "could not convert string"]

NetworkError == AlterLabError("Network error")

RequestFailed == AlterLabError("Request failed after retries")

\* the kinds that derive from AlterLabAPIError through an HTTP status
ApiErrorKinds ==
    {"AlterLabAPIError", "AuthenticationError", "InsufficientCreditsError",
     "ValidationError", "RateLimitError"}

----------------------------------------------------------------------------
(* Transport with retry *)

\* response.text
Text(r) == "text"

\* data.get("detail", response.text), response.text when the body is no JSON
Detail(r) == IF r.body = "json_detail" THEN "detail" ELSE Text(r)

\* mutant: the closing "elif status_code >= 400" branch is missing
HandleErrorResponseNoGeneric(r) ==
    CASE r.status_code = 401 -> AuthenticationError(401, Detail(r))
      [] r.status_code = 402 -> InsufficientCreditsError(402, Detail(r))
      [] r.status_code = 422 -> ValidationError(422, Detail(r))
      [] r.status_code = 429 -> RateLimitError(Detail(r), {})
      [] OTHER -> NoError

\* mutant: the 402 and 422 branches raise each other's exception
HandleErrorResponseSwapped(r) ==
    CASE r.status_code = 401 -> AuthenticationError(401, Detail(r))
      [] r.status_code = 402 -> ValidationError(402, Detail(r))
      [] r.status_code = 422 -> InsufficientCreditsError(422, Detail(r))
      [] r.status_code = 429 -> RateLimitError(Detail(r), {})
      [] OTHER -> AlterLabAPIError(r.status_code, Detail(r))

\* _handle_error_response: the exception it raises (NoError: it returns)
HandleErrorResponse(r) ==
    CASE r.status_code = 401 -> AuthenticationError(401, Detail(r))
      [] r.status_code = 402 -> InsufficientCreditsError(402, Detail(r))
      [] r.status_code = 422 -> ValidationError(422, Detail(r))
      [] r.status_code = 429 ->
            IF Truthy(r.retry_after)
            THEN IF ParseInt(r.retry_after) = {}
                 THEN ValueError
                 ELSE RateLimitError(Detail(r), ParseInt(r.retry_after))
            ELSE RateLimitError(Detail(r), {})
      [] r.status_code >= 400 /\ r.status_code \notin {401, 402, 422, 429} ->
            AlterLabAPIError(r.status_code, Detail(r))
      [] OTHER -> NoError

\* "Don't retry client errors (4xx) except rate limits"
IsClientError(code) == 400 <= code /\ code < 500 /\ code # 429

\* mutant: the exponent counts attempts from 1
BackoffFromOne(a) == retry_delay * (2 ^ (a + 1))

\* self.retry_delay * (2**attempt)
Backoff(a) == retry_delay * (2 ^ a)

\* mutant: the network-failure branch sleeps after every attempt
SleepsAfterEveryNetworkFailure(a) == TRUE

\* the network-failure branch sleeps unless this was the last attempt
SleepsAfterNetworkFailure(a) == a < max_retries - 1

\* last_error after a response that is retried
RetryError(r) == AlterLabAPIError(r.status_code, Text(r))

\* One pass of the loop body on the outcome r of client.request at loop
\* index a: what the send does next.
\*   next = "return": return response
\*   next = "raise" : an exception leaves the send
\*   next = "sleep" : time.sleep / asyncio.sleep of dur seconds, then continue
SendStep(r, a) ==
    IF r.kind = "net"
    THEN IF SleepsAfterNetworkFailure(a)
         THEN [next |-> "sleep", dur |-> Backoff(a), error |-> NoError,
               last_error |-> NetworkError]
         ELSE [next |-> "continue", dur |-> 0, error |-> NoError,
               last_error |-> NetworkError]
    ELSE IF r.status_code >= 400
    THEN IF IsClientError(r.status_code) /\ HandleErrorResponse(r) # NoError
         THEN [next |-> "raise", dur |-> 0, error |-> HandleErrorResponse(r),
               last_error |-> last_error]
         ELSE IF Truthy(r.retry_after)
         THEN IF ParseFloat(r.retry_after) = {}
              THEN [next |-> "raise", dur |-> 0, error |-> ValueError,
                    last_error |-> RetryError(r)]
              ELSE [next |-> "sleep",
                    dur |-> CHOOSE d \in ParseFloat(r.retry_after) : TRUE,
                    error |-> NoError, last_error |-> RetryError(r)]
         ELSE [next |-> "sleep", dur |-> Backoff(a), error |-> NoError,
               last_error |-> RetryError(r)]
    ELSE [next |-> "return", dur |-> 0, error |-> NoError,
          last_error |-> last_error]

\* mutant: the loop runs one index too far
InRangeInclusive(a) == a <= max_retries

\* for attempt in range(self.max_retries): a is a loop index
InRange(a) == a < max_retries

\* mutant: a send that used up its retries reports the poller's timeout
ExhaustedAsTimeout(e) == TimeoutError(job_id, poll_timeout)

\* raise last_error or AlterLabError("Request failed after retries")
Exhausted(e) == IF e # NoError THEN e ELSE RequestFailed

----------------------------------------------------------------------------
(* Response parser and job status *)

NoValue == [kind |-> "none"]

\* dict.get(key, default) on a key holding a string
Get(v, default) == IF v = Absent THEN default ELSE v

\* _parse_scrape_response, on the fields the model carries
ParseScrapeResponse(d) ==
    [kind |-> "ScrapeResult", url |-> "", status_code |-> 200,
     content |-> [str |-> Get(d.content, "")], metadata |-> [job_id |-> Absent]]

\* scrape's placeholder for sync=False: only the job id is filled in
Placeholder(u, j) ==
    [kind |-> "ScrapeResult", url |-> u, status_code |-> 202,
     content |-> [job_id |-> j], metadata |-> [job_id |-> j]]

\* Python truthiness of data.get("result"): a non-empty object
ResultTruthy(v) == v.kind = "dict" /\ v.content # Absent

\* mutant: a payload without a status counts as failed
JobStatusOfDefaultFailed(j, d) ==
    [kind |-> "JobStatus", job_id |-> j, status |-> Get(d.status, "failed"),
     result |-> IF d.status \in {"succeeded", "completed"} /\ ResultTruthy(d.result)
                THEN ParseScrapeResponse(d.result)
                ELSE NoValue,
     error |-> d.error]

\* get_job_status, after the response arrived: the JobStatus built from the body
JobStatusOf(j, d) ==
    [kind |-> "JobStatus", job_id |-> j, status |-> Get(d.status, "pending"),
     result |-> IF d.status \in {"succeeded", "completed"} /\ ResultTruthy(d.result)
                THEN ParseScrapeResponse(d.result)
                ELSE NoValue,
     error |-> d.error]

\* mutant: the server's error string is dropped
JobFailedMessageGeneric(js) == "Job failed"

\* status.error or "Job failed"
JobFailedMessage(js) == IF Truthy(js.error) THEN js.error ELSE "Job failed"

\* mutant: a succeeded job is polled once more before its result is returned
PollStepLate(js) ==
    IF js.status = "failed"
    THEN [next |-> "raise", value |-> NoValue,
          error |-> ScrapeError(422, JobFailedMessage(js), "JOB_FAILED")]
    ELSE [next |-> "sleep", value |-> NoValue, error |-> NoError]

\* mutant: a failed job is reported with the transport's generic API error
PollStepGenericFailure(js) ==
    IF js.status = "succeeded"
    THEN IF js.result # NoValue
         THEN [next |-> "return", value |-> js.result, error |-> NoError]
         ELSE [next |-> "raise", value |-> NoValue,
               error |-> ScrapeError(200, "Job completed but no result returned", Absent)]
    ELSE IF js.status = "failed"
    THEN [next |-> "raise", value |-> NoValue,
          error |-> AlterLabAPIError(422, JobFailedMessage(js))]
    ELSE [next |-> "sleep", value |-> NoValue, error |-> NoError]

\* mutant: a succeeded job returns status.result without testing it
PollStepUnchecked(js) ==
    IF js.status = "succeeded"
    THEN [next |-> "return", value |-> js.result, error |-> NoError]
    ELSE IF js.status = "failed"
    THEN [next |-> "raise", value |-> NoValue,
          error |-> ScrapeError(422, JobFailedMessage(js), "JOB_FAILED")]
    ELSE [next |-> "sleep", value |-> NoValue, error |-> NoError]

\* wait_for_job, after get_job_status returned js: what the loop does next
PollStep(js) ==
    IF js.status = "succeeded"
    THEN IF js.result # NoValue
         THEN [next |-> "return", value |-> js.result, error |-> NoError]
         ELSE [next |-> "raise", value |-> NoValue,
               error |-> ScrapeError(200, "Job completed but no result returned", Absent)]
    ELSE IF js.status = "failed"
    THEN [next |-> "raise", value |-> NoValue,
          error |-> ScrapeError(422, JobFailedMessage(js), "JOB_FAILED")]
    ELSE [next |-> "sleep", value |-> NoValue, error |-> NoError]

\* mutant: the sleep grows with the number of polls made
PollSleepGrowing(pi, n) == pi * n

\* time.sleep(poll_interval) after the n-th poll
PollSleep(pi, n) == pi

\* mutant: the head of the poll loop never finds the deadline passed
DeadlineNeverPassed(t, t0, pt) == FALSE

\* the deadline test at the head of the poll loop: elapsed > poll_timeout
DeadlinePassed(t, t0, pt) == t - t0 > pt

\* mutant: every 202 counts as an accepted job
IsAcceptedAny202(r) == r.status_code = 202

\* response.status_code == 202 and "job_id" in data
IsAccepted(r) == r.status_code = 202 /\ r.data.job_id # Absent

\* mutant: an accepted job is polled whatever the sync flag
DispatchAlwaysPolls(r, s) == IF IsAccepted(r) THEN "poll" ELSE "parse"

\* mutant: an accepted job is never polled
DispatchNeverPolls(r, s) == IF IsAccepted(r) THEN "placeholder" ELSE "parse"

\* scrape's branch on the submit response r and the sync flag s
Dispatch(r, s) ==
    IF IsAccepted(r)
    THEN IF ~s THEN "placeholder" ELSE "poll"
    ELSE "parse"

----------------------------------------------------------------------------
(* The call as a state machine *)

NoResult == [tag |-> "none"]

NoSleep == [kind |-> "none", dur |-> 0]

\* the poll loop is running (wait_for_job, or scrape after a 202 with sync)
Polling == op = "wait_for_job" \/ (op = "scrape" /\ job_id # Absent)

\* status 429 or >= 500
IsRetryableStatus(code) == code = 429 \/ code >= 500

\* what the server may answer on the endpoint the call is talking to
Replies ==
    {NetFail} \cup ErrorReplies \cup
    (IF Polling \/ op = "get_job_status"
     THEN {OkReply(200, d) : d \in JobBodies}
     ELSE IF op = "scrape"
     THEN {OkReply(c, d) : c \in {200, 202}, d \in SubmitBodies}
     ELSE {OkReply(200, d) : d \in PlainBodies})

Raise(e) == pc' = "done" /\ result' = [tag |-> "raise", error |-> e]

Return(v) == pc' = "done" /\ result' = [tag |-> "return", value |-> v]

ClientIds == 1..MaxClients

\* the next httpx client object to be constructed: the first one not used yet
FreshId(h) ==
    CHOOSE i \in ClientIds : h[i] = "unused" /\ \A j \in 1..(i - 1) : h[j] # "unused"

\* _get_client / _get_async_client: the client returned, a new one only when
\* none is held
GetOrCreate(c, h) == IF c = 0 THEN FreshId(h) ELSE c

\* the state of the clients after GetOrCreate returned client i
Opened(h, i) == [h EXCEPT ![i] = IF h[i] = "unused" THEN "open" ELSE h[i]]

\* client = self._get_client()
GetClientStep ==
    /\ client' = GetOrCreate(client, http)
    /\ http' = Opened(http, GetOrCreate(client, http))
    /\ UNCHANGED <<async_client, ahttp, scope, propagated>>

\* client = self._get_async_client()
GetAsyncClientStep ==
    /\ async_client' = GetOrCreate(async_client, ahttp)
    /\ ahttp' = Opened(ahttp, GetOrCreate(async_client, ahttp))
    /\ UNCHANGED <<client, http, scope, propagated>>

\* entry of _request_with_retry: the client is obtained, then the loop runs
\* range(max_retries); an empty range falls through to the final raise
StartSend ==
    /\ GetClientStep
    /\ attempt' = 0 /\ requests' = 0 /\ retryable' = 0 /\ throttled' = 0
    /\ netfails' = 0 /\ sleeps' = 0 /\ sleep' = NoSleep
    /\ response' = NoResponse /\ last_error' = NoError
    /\ IF InRange(0)
       THEN pc' = "send" /\ result' = NoResult
       ELSE Raise(Exhausted(NoError))

\* head of wait_for_job's loop at time t, with n polls made so far
WaitLoop(j, t0, t, pt, n) ==
    IF DeadlinePassed(t, t0, pt)
    THEN /\ Raise(TimeoutError(j, pt))
         /\ polls' = n
         /\ UNCHANGED <<sendvars, status, lifevars>>
    ELSE /\ polls' = n + 1
         /\ status' = NoValue
         /\ StartSend

\* the history of the current send after the request answered by r
Recorded(r, le) ==
    /\ requests' = requests + 1
    /\ response' = r
    /\ last_error' = le
    /\ retryable' = retryable +
          (IF r.kind = "http" /\ IsRetryableStatus(r.status_code) THEN 1 ELSE 0)
    /\ throttled' = throttled +
          (IF r.kind = "http" /\ r.status_code = 429 THEN 1 ELSE 0)
    /\ netfails' = netfails + (IF r.kind = "net" THEN 1 ELSE 0)

\* the url argument of scrape
CallUrl == "u1"

----------------------------------------------------------------------------
(* The async methods, as functions on the state t of one async call *)

NoRequest == [method |-> "none", path |-> "none"]

\* the request each operation issues
Request(o, j) ==
    CASE o = "scrape"         -> [method |-> "POST", path |-> "/api/v1/scrape"]
      [] o = "job"            -> [method |-> "GET", path |-> <<"/api/v1/jobs", j>>]
      [] o = "estimate_cost"  -> [method |-> "POST", path |-> "/api/v1/scrape/estimate"]
      [] OTHER                -> [method |-> "GET", path |-> "/api/v1/usage"]

\* no async call made
AsyncIdle ==
    [pc |-> "idle", op |-> "get_usage", sync |-> TRUE, poll_interval |-> 0,
     poll_timeout |-> 0, attempt |-> 0, requests |-> 0, sleeps |-> 0,
     sleep |-> NoSleep, last_error |-> NoError, job_id |-> Absent,
     start_time |-> 0, polls |-> 0, poll_sleeps |-> 0, status |-> NoValue,
     result |-> NoResult, now |-> 0, request |-> NoRequest]

\* mutant: the async loop backs off by retry_delay * attempt
AsyncSendStepLinear(r, a, le) ==
    IF r.kind = "net"
    THEN IF a < max_retries - 1
         THEN [next |-> "sleep", dur |-> retry_delay * a, error |-> NoError,
               last_error |-> NetworkError]
         ELSE [next |-> "continue", dur |-> 0, error |-> NoError,
               last_error |-> NetworkError]
    ELSE IF r.status_code >= 400
    THEN IF (400 <= r.status_code /\ r.status_code < 500 /\ r.status_code # 429)
            /\ HandleErrorResponse(r) # NoError
         THEN [next |-> "raise", dur |-> 0, error |-> HandleErrorResponse(r),
               last_error |-> le]
         ELSE IF Truthy(r.retry_after)
         THEN IF ParseFloat(r.retry_after) = {}
              THEN [next |-> "raise", dur |-> 0, error |-> ValueError,
                    last_error |-> AlterLabAPIError(r.status_code, Text(r))]
              ELSE [next |-> "sleep",
                    dur |-> CHOOSE d \in ParseFloat(r.retry_after) : TRUE,
                    error |-> NoError,
                    last_error |-> AlterLabAPIError(r.status_code, Text(r))]
         ELSE [next |-> "sleep", dur |-> retry_delay * a, error |-> NoError,
               last_error |-> AlterLabAPIError(r.status_code, Text(r))]
    ELSE [next |-> "return", dur |-> 0, error |-> NoError, last_error |-> le]

\* one pass of _async_request_with_retry's loop body on the outcome r of
\* await client.request at loop index a, last_error being le
AsyncSendStep(r, a, le) ==
    IF r.kind = "net"
    THEN IF a < max_retries - 1
         THEN [next |-> "sleep", dur |-> retry_delay * (2 ^ a), error |-> NoError,
               last_error |-> NetworkError]
         ELSE [next |-> "continue", dur |-> 0, error |-> NoError,
               last_error |-> NetworkError]
    ELSE IF r.status_code >= 400
    THEN IF (400 <= r.status_code /\ r.status_code < 500 /\ r.status_code # 429)
            /\ HandleErrorResponse(r) # NoError
         THEN [next |-> "raise", dur |-> 0, error |-> HandleErrorResponse(r),
               last_error |-> le]
         ELSE IF Truthy(r.retry_after)
         THEN IF ParseFloat(r.retry_after) = {}
              THEN [next |-> "raise", dur |-> 0, error |-> ValueError,
                    last_error |-> AlterLabAPIError(r.status_code, Text(r))]
              ELSE [next |-> "sleep",
                    dur |-> CHOOSE d \in ParseFloat(r.retry_after) : TRUE,
                    error |-> NoError,
                    last_error |-> AlterLabAPIError(r.status_code, Text(r))]
         ELSE [next |-> "sleep", dur |-> retry_delay * (2 ^ a), error |-> NoError,
               last_error |-> AlterLabAPIError(r.status_code, Text(r))]
    ELSE [next |-> "return", dur |-> 0, error |-> NoError, last_error |-> le]

\* get_job_status_async, after the response arrived
AsyncJobStatusOf(j, d) ==
    [kind |-> "JobStatus", job_id |-> j,
     status |-> IF d.status = Absent THEN "pending" ELSE d.status,
     result |-> IF d.status \in {"succeeded", "completed"} /\ ResultTruthy(d.result)
                THEN ParseScrapeResponse(d.result)
                ELSE NoValue,
     error |-> d.error]

\* wait_for_job_async, after get_job_status_async returned js
AsyncPollStep(js) ==
    IF js.status = "succeeded"
    THEN IF js.result # NoValue
         THEN [next |-> "return", value |-> js.result, error |-> NoError]
         ELSE [next |-> "raise", value |-> NoValue,
               error |-> ScrapeError(200, "Job completed but no result returned", Absent)]
    ELSE IF js.status = "failed"
    THEN [next |-> "raise", value |-> NoValue,
          error |-> ScrapeError(422, IF Truthy(js.error) THEN js.error ELSE "Job failed",
                                "JOB_FAILED")]
    ELSE [next |-> "sleep", value |-> NoValue, error |-> NoError]

AsyncRaise(t, e) == [t EXCEPT !.pc = "done", !.result = [tag |-> "raise", error |-> e]]

AsyncReturn(t, v) == [t EXCEPT !.pc = "done", !.result = [tag |-> "return", value |-> v]]

\* entry of _async_request_with_retry for the request q
AsyncStartSend(t, q) ==
    LET u == [t EXCEPT !.attempt = 0, !.requests = 0, !.sleeps = 0,
                       !.sleep = NoSleep, !.last_error = NoError, !.request = q]
    IN  IF 0 < max_retries
        THEN [u EXCEPT !.pc = "send", !.result = NoResult]
        ELSE AsyncRaise(u, RequestFailed)

\* head of wait_for_job_async's loop
AsyncWaitLoop(t) ==
    IF t.now - t.start_time > t.poll_timeout
    THEN AsyncRaise(t, TimeoutError(t.job_id, t.poll_timeout))
    ELSE AsyncStartSend([t EXCEPT !.polls = @ + 1, !.status = NoValue],
                        Request("job", t.job_id))

\* the async poll loop is running
AsyncPolling(t) == t.op = "wait_for_job" \/ (t.op = "scrape" /\ t.job_id # Absent)

\* the caller of the async send, once it returned response r
AsyncOnResponse(t, r) ==
    IF AsyncPolling(t)
    THEN LET js == AsyncJobStatusOf(t.job_id, r.data)
             ps == AsyncPollStep(js)
             u  == [t EXCEPT !.status = js]
         IN  CASE ps.next = "return" -> AsyncReturn(u, ps.value)
               [] ps.next = "raise"  -> AsyncRaise(u, ps.error)
               [] OTHER -> [u EXCEPT !.pc = "poll_sleep",
                                     !.sleep = [kind |-> "poll", dur |-> t.poll_interval],
                                     !.poll_sleeps = @ + 1]
    ELSE IF t.op = "scrape"
    THEN IF r.status_code = 202 /\ r.data.job_id # Absent
         THEN IF ~t.sync
              THEN AsyncReturn(t, Placeholder(CallUrl, r.data.job_id))
              ELSE AsyncWaitLoop([t EXCEPT !.job_id = r.data.job_id,
                                           !.start_time = t.now, !.polls = 0])
         ELSE AsyncReturn(t, ParseScrapeResponse(r.data))
    ELSE AsyncReturn(t, CASE t.op = "get_job_status" -> AsyncJobStatusOf(t.job_id, r.data)
                          [] t.op = "estimate_cost" -> [kind |-> "CostEstimate"]
                          [] OTHER -> [kind |-> "UsageStats"])

\* await client.request answered by r
AsyncOnReply(t, r) ==
    LET s == AsyncSendStep(r, t.attempt, t.last_error)
        u == [t EXCEPT !.requests = @ + 1, !.last_error = s.last_error]
    IN  CASE s.next = "sleep" ->
                [u EXCEPT !.sleeps = @ + 1, !.pc = "backoff",
                          !.sleep = [kind |-> "retry", dur |-> s.dur]]
          [] s.next = "continue" ->
                IF t.attempt + 1 < max_retries
                THEN [u EXCEPT !.attempt = @ + 1]
                ELSE AsyncRaise([u EXCEPT !.attempt = @ + 1],
                                IF s.last_error # NoError THEN s.last_error
                                ELSE RequestFailed)
          [] s.next = "raise" -> AsyncRaise(u, s.error)
          [] OTHER -> AsyncOnResponse(u, r)

\* await asyncio.sleep(...) of the retry loop returns
AsyncBackoffDone(t) ==
    LET u == [t EXCEPT !.now = @ + t.sleep.dur, !.attempt = @ + 1, !.pc = "send"]
    IN  IF t.attempt + 1 < max_retries
        THEN u
        ELSE AsyncRaise(u, IF t.last_error # NoError THEN t.last_error
                           ELSE RequestFailed)

\* await asyncio.sleep(poll_interval) returns
AsyncPollSleepDone(t) == AsyncWaitLoop([t EXCEPT !.now = @ + t.sleep.dur])

\* the async method o is called with these arguments
AsyncCall(o, s, pi, pt, j) ==
    LET t == [AsyncIdle EXCEPT !.op = o, !.sync = s, !.poll_interval = pi,
                               !.poll_timeout = pt, !.job_id = j]
    IN  IF o = "wait_for_job"
        THEN AsyncWaitLoop(t)
        ELSE AsyncStartSend(t, Request(IF o = "get_job_status" THEN "job" ELSE o, j))

----------------------------------------------------------------------------
(* The blocking call, step by step *)

\* the poll loop after get_job_status returned on response r
OnJobStatus(r) ==
    LET js == JobStatusOf(job_id, r.data)
        ps == PollStep(js)
    IN  /\ Recorded(r, last_error)
        /\ attempt' = attempt
        /\ status' = js
        /\ UNCHANGED <<job_id, start_time, polls, lifevars>>
        /\ CASE ps.next = "return" ->
                  /\ Return(ps.value)
                  /\ UNCHANGED <<sleeps, sleep, nonterminal, poll_sleeps>>
             [] ps.next = "raise" ->
                  /\ Raise(ps.error)
                  /\ UNCHANGED <<sleeps, sleep, nonterminal, poll_sleeps>>
             [] ps.next = "sleep" ->
                  /\ pc' = "poll_sleep"
                  /\ result' = result
                  /\ sleep' = [kind |-> "poll", dur |-> PollSleep(poll_interval, polls)]
                  /\ nonterminal' = nonterminal + 1
                  /\ poll_sleeps' = poll_sleeps + 1
                  /\ UNCHANGED sleeps

\* scrape after the submit returned response r, at time t
OnSubmitted(r, t) ==
    CASE Dispatch(r, sync) = "placeholder" ->
              /\ Recorded(r, last_error)
              /\ attempt' = attempt
              /\ Return(Placeholder(CallUrl, r.data.job_id))
              /\ UNCHANGED <<sleeps, sleep, pollvars, lifevars>>
      [] Dispatch(r, sync) = "poll" ->
              /\ job_id' = r.data.job_id
              /\ start_time' = t
              /\ WaitLoop(r.data.job_id, t, t, poll_timeout, 0)
              /\ UNCHANGED <<nonterminal, poll_sleeps>>
      [] Dispatch(r, sync) = "parse" ->
              /\ Recorded(r, last_error)
              /\ attempt' = attempt
              /\ Return(ParseScrapeResponse(r.data))
              /\ UNCHANGED <<sleeps, sleep, pollvars, lifevars>>

\* the caller of the send, once it returned response r at time t
OnResponse(r, t) ==
    IF Polling
    THEN OnJobStatus(r)
    ELSE IF op = "scrape"
    THEN OnSubmitted(r, t)
    ELSE /\ Recorded(r, last_error)
         /\ attempt' = attempt
         /\ UNCHANGED <<sleeps, sleep, pollvars, lifevars>>
         /\ Return(CASE op = "get_job_status" -> JobStatusOf(job_id, r.data)
                     [] op = "estimate_cost" -> [kind |-> "CostEstimate"]
                     [] OTHER -> [kind |-> "UsageStats"])

NoPoll(j) ==
    /\ job_id' = j /\ start_time' = 0 /\ polls' = 0 /\ nonterminal' = 0
    /\ poll_sleeps' = 0 /\ status' = NoValue

Idle == pc = "idle"

\* scrape / scrape_async
Scrape(s, pi, pt) ==
    /\ Idle
    /\ op' = "scrape" /\ sync' = s /\ poll_interval' = pi /\ poll_timeout' = pt
    /\ now' = 0
    /\ NoPoll(Absent)
    /\ StartSend
    /\ twin' = AsyncCall("scrape", s, pi, pt, Absent)
    /\ UNCHANGED <<cfgvars, sidevars>>

\* wait_for_job / wait_for_job_async
WaitForJob(j, pi, pt) ==
    /\ Idle
    /\ op' = "wait_for_job" /\ sync' = TRUE
    /\ poll_interval' = pi /\ poll_timeout' = pt
    /\ now' = 0
    /\ job_id' = j /\ start_time' = 0
    /\ nonterminal' = 0 /\ poll_sleeps' = 0
    /\ WaitLoop(j, 0, 0, pt, 0)
    /\ twin' = AsyncCall("wait_for_job", TRUE, pi, pt, j)
    /\ UNCHANGED <<cfgvars, sidevars>>

\* get_job_status / get_job_status_async
GetJobStatus(j) ==
    /\ Idle
    /\ op' = "get_job_status" /\ sync' = TRUE
    /\ poll_interval' = 0 /\ poll_timeout' = 0
    /\ now' = 0
    /\ NoPoll(j)
    /\ StartSend
    /\ twin' = AsyncCall("get_job_status", TRUE, 0, 0, j)
    /\ UNCHANGED <<cfgvars, sidevars>>

\* estimate_cost / estimate_cost_async
EstimateCost ==
    /\ Idle
    /\ op' = "estimate_cost" /\ sync' = TRUE
    /\ poll_interval' = 0 /\ poll_timeout' = 0
    /\ now' = 0
    /\ NoPoll(Absent)
    /\ StartSend
    /\ twin' = AsyncCall("estimate_cost", TRUE, 0, 0, Absent)
    /\ UNCHANGED <<cfgvars, sidevars>>

\* get_usage / get_usage_async
GetUsage ==
    /\ Idle
    /\ op' = "get_usage" /\ sync' = TRUE
    /\ poll_interval' = 0 /\ poll_timeout' = 0
    /\ now' = 0
    /\ NoPoll(Absent)
    /\ StartSend
    /\ twin' = AsyncCall("get_usage", TRUE, 0, 0, Absent)
    /\ UNCHANGED <<cfgvars, sidevars>>

\* one pass of the retry loop: client.request answered by r
Attempt(r) ==
    /\ pc = "send"
    /\ now' = now
    /\ twin' = AsyncOnReply(twin, r)
    /\ UNCHANGED <<cfgvars, sidevars, callvars>>
    /\ LET s == SendStep(r, attempt)
       IN CASE s.next = "sleep" ->
                  /\ Recorded(r, s.last_error)
                  /\ attempt' = attempt
                  /\ sleeps' = sleeps + 1
                  /\ sleep' = [kind |-> "retry", dur |-> s.dur]
                  /\ pc' = "backoff"
                  /\ result' = result
                  /\ UNCHANGED <<pollvars, lifevars>>
            [] s.next = "continue" ->
                  /\ Recorded(r, s.last_error)
                  /\ attempt' = attempt + 1
                  /\ UNCHANGED <<sleeps, sleep, pollvars, lifevars>>
                  /\ IF InRange(attempt + 1)
                     THEN pc' = "send" /\ result' = result
                     ELSE Raise(Exhausted(s.last_error))
            [] s.next = "raise" ->
                  /\ Recorded(r, s.last_error)
                  /\ attempt' = attempt
                  /\ UNCHANGED <<sleeps, sleep, pollvars, lifevars>>
                  /\ Raise(s.error)
            [] s.next = "return" ->
                  OnResponse(r, now)

\* mutant: every retry uses up one of the client's max_retries
BackoffDoneCountsDown ==
    /\ pc = "backoff"
    /\ now' = now + sleep.dur
    /\ twin' = AsyncBackoffDone(twin)
    /\ attempt' = attempt + 1
    /\ max_retries' = max_retries - 1
    /\ IF InRange(attempt + 1)
       THEN pc' = "send" /\ result' = result
       ELSE Raise(Exhausted(last_error))
    /\ UNCHANGED <<api_key, base_url, timeout, retry_delay, sidevars, callvars,
                   lifevars, pollvars, requests, retryable, throttled, netfails,
                   sleeps, sleep, response, last_error>>

\* the retry sleep ends: continue with the next loop index, or leave the loop
BackoffDone ==
    /\ pc = "backoff"
    /\ now' = now + sleep.dur
    /\ twin' = AsyncBackoffDone(twin)
    /\ attempt' = attempt + 1
    /\ IF InRange(attempt + 1)
       THEN pc' = "send" /\ result' = result
       ELSE Raise(Exhausted(last_error))
    /\ UNCHANGED <<cfgvars, sidevars, callvars, lifevars, pollvars, requests, retryable, throttled,
                   netfails, sleeps, sleep, response, last_error>>

\* the poll sleep ends: back to the head of wait_for_job's loop
PollSleepDone ==
    /\ pc = "poll_sleep"
    /\ polls < MaxPolls \/ DeadlinePassed(now + sleep.dur, start_time, poll_timeout)
    /\ now' = now + sleep.dur
    /\ twin' = AsyncPollSleepDone(twin)
    /\ WaitLoop(job_id, start_time, now + sleep.dur, poll_timeout, polls)
    /\ UNCHANGED <<cfgvars, sidevars, callvars, job_id, start_time, nonterminal,
                   poll_sleeps>>

DEFAULT_BASE_URL == "https://api.alterlab.io"

\* no function is applied on its own
NoInput == [fn |-> "none"]

\* the function has not returned yet
Pending == [kind |-> "pending"]

NothingApplied == input = NoInput /\ output = Pending

DEFAULT_TIMEOUT == 120

TaskIds == 1..MaxTasks

\* a thread or task that has not called yet
NotCalling == [pc |-> "idle", kind |-> "blocking", local |-> 0, left |-> 0, polls |-> 0]

\* __init__: no call made, no HTTP client created
Constructed ==
    /\ pc = "idle"
    /\ op = "get_usage" /\ sync = TRUE /\ poll_interval = 0 /\ poll_timeout = 0
    /\ attempt = 0 /\ requests = 0 /\ retryable = 0 /\ throttled = 0
    /\ netfails = 0
    /\ sleeps = 0 /\ sleep = NoSleep /\ response = NoResponse
    /\ last_error = NoError
    /\ job_id = Absent /\ start_time = 0 /\ polls = 0 /\ nonterminal = 0
    /\ poll_sleeps = 0 /\ status = NoValue
    /\ result = NoResult
    /\ now = 0
    /\ client = 0 /\ async_client = 0
    /\ http = [i \in ClientIds |-> "unused"]
    /\ ahttp = [i \in ClientIds |-> "unused"]
    /\ scope = "none" /\ propagated = FALSE
    /\ twin = AsyncIdle
    /\ tasks = [i \in TaskIds |-> AsyncIdle]
    /\ loop = 0
    /\ overtaken = {}
    /\ callers = [i \in TaskIds |-> NotCalling]

Init ==
    /\ api_key = "k1"
    /\ base_url = DEFAULT_BASE_URL
    /\ timeout = DEFAULT_TIMEOUT
    /\ max_retries \in (-1)..MaxRetries
    /\ retry_delay \in RetryDelays
    /\ Constructed
    /\ NothingApplied

Next ==
    \/ \E s \in BOOLEAN, pi \in PollIntervals, pt \in PollTimeouts : Scrape(s, pi, pt)
    \/ \E j \in JobIds, pi \in PollIntervals, pt \in PollTimeouts : WaitForJob(j, pi, pt)
    \/ \E j \in JobIds : GetJobStatus(j)
    \/ EstimateCost
    \/ GetUsage
    \/ \E r \in Replies : Attempt(r)
    \/ BackoffDone
    \/ PollSleepDone

Spec == Init /\ [][Next]_vars

----------------------------------------------------------------------------
(* Lifetime of the HTTP clients *)

DEFAULT_MAX_RETRIES == 3

DEFAULT_RETRY_DELAY == 1

callstate == <<cfgvars, callvars, sendvars, pollvars, pc, result, now, twin,
              sidevars>>

\* everything but the function applied on its own
callstatic == <<cfgvars, callvars, sendvars, pollvars, pc, result, now, twin,
               lifevars, concvars, callers>>

\* what asyncio.get_event_loop() finds when close() runs: a running loop, a
\* loop that is not running, or none (RuntimeError)
LoopStates == {"running", "idle", "none"}

\* the scoped blocks: with / async with
Blocks == {"with", "async_with"}

\* self._client.close(): the clients after closing client c (0: none held)
CloseSync(h, c) == IF c = 0 THEN h ELSE [h EXCEPT ![c] = "closed"]

\* close() on the async client c under loop state l: aclose() is scheduled
\* as a task, run to completion, or skipped on RuntimeError
CloseAsyncFromSync(h, c, l) ==
    IF c = 0 THEN h
    ELSE [h EXCEPT ![c] = CASE l = "running" -> "scheduled"
                            [] l = "idle"    -> "closed"
                            [] OTHER         -> h[c]]

\* await self._async_client.aclose()
CloseAsync(h, c) == IF c = 0 THEN h ELSE [h EXCEPT ![c] = "closed"]

\* body of close() under loop state l
CloseStep(l) ==
    /\ http' = CloseSync(http, client)
    /\ client' = 0
    /\ ahttp' = CloseAsyncFromSync(ahttp, async_client, l)
    /\ async_client' = 0

\* body of aclose()
ACloseStep ==
    /\ http' = CloseSync(http, client)
    /\ client' = 0
    /\ ahttp' = CloseAsync(ahttp, async_client)
    /\ async_client' = 0

\* __enter__ / __aenter__: the block k is entered
Enter(k) ==
    /\ scope \in {"none", "left"}
    /\ scope' = k /\ propagated' = FALSE
    /\ UNCHANGED <<callstate, client, async_client, http, ahttp>>

\* _get_client, called by a blocking method
GetClient ==
    /\ client = 0 => \E i \in ClientIds : http[i] = "unused"
    /\ GetClientStep
    /\ UNCHANGED callstate

\* _get_async_client, called by an async method
GetAsyncClient ==
    /\ async_client = 0 => \E i \in ClientIds : ahttp[i] = "unused"
    /\ GetAsyncClientStep
    /\ UNCHANGED callstate

\* close(), called by the program; inside async with a loop is running
Close(l) ==
    /\ scope = "async_with" => l = "running"
    /\ CloseStep(l)
    /\ UNCHANGED <<callstate, scope, propagated>>

\* aclose(), awaited by the program
AClose ==
    /\ ACloseStep
    /\ UNCHANGED <<callstate, scope, propagated>>

\* __exit__: the with block is left, exc telling whether its body raised
Exit(exc, l) ==
    /\ scope = "with"
    /\ CloseStep(l)
    /\ scope' = "left" /\ propagated' = exc
    /\ UNCHANGED callstate

\* __aexit__: the async with block is left
AExit(exc) ==
    /\ scope = "async_with"
    /\ ACloseStep
    /\ scope' = "left" /\ propagated' = exc
    /\ UNCHANGED callstate

\* the event loop runs the aclose() task that close() created
RunCloseTask(i) ==
    /\ ahttp[i] = "scheduled"
    /\ ahttp' = [ahttp EXCEPT ![i] = "closed"]
    /\ UNCHANGED <<callstate, client, async_client, http, scope, propagated>>

ScopeInit ==
    /\ api_key = "k1"
    /\ base_url = DEFAULT_BASE_URL
    /\ timeout = DEFAULT_TIMEOUT
    /\ max_retries = DEFAULT_MAX_RETRIES
    /\ retry_delay = DEFAULT_RETRY_DELAY
    /\ Constructed
    /\ NothingApplied

ScopeNext ==
    \/ \E k \in Blocks : Enter(k)
    \/ GetClient
    \/ GetAsyncClient
    \/ \E l \in LoopStates : Close(l)
    \/ AClose
    \/ \E exc \in BOOLEAN, l \in LoopStates : Exit(exc, l)
    \/ \E exc \in BOOLEAN : AExit(exc)
    \/ \E i \in ClientIds : RunCloseTask(i)

ScopeSpec == ScopeInit /\ [][ScopeNext]_vars

----------------------------------------------------------------------------
(* Concurrent calls through the async surface *)

\* The calls are coroutines of one event loop, which runs one of them at a
\* time from one await to the next.  A step below is such a run: the task
\* resumes because its response arrived or its sleep ended, and runs to its
\* next await or to its end.  Requests and the steps themselves take no
\* time, so a task's clock counts its own sleeps.

\* what the server answers in the concurrent runs
ConcReplies(t) ==
    {NetFail}
    \cup
    (IF AsyncPolling(t)
     THEN {OkReply(200, [kind |-> "job", status |-> "running",
                         result |-> NoResultValue, error |-> Absent]),
           OkReply(200, [kind |-> "job", status |-> "succeeded",
                         result |-> [kind |-> "dict", content |-> "hello"],
                         error |-> Absent])}
     ELSE {OkReply(202, [kind |-> "scrape", job_id |-> "j1", content |-> Absent])})

Sleeping(t) == t.pc \in {"backoff", "poll_sleep"}

\* mutant: the coroutine sleeps with time.sleep, keeping the loop's thread
BlockingSleep(i) == i

\* await asyncio.sleep(d) in task i: the task is suspended until the timer
\* fires and the thread goes back to the event loop; the value is the task
\* that holds the thread during the sleep (0: none)
AsyncSleep(i) == 0

\* the event loop can run task i
CanRun(i) == loop \in {0, i}

\* the tasks that are asleep while task i issues a request
Passed(i) == {j \in TaskIds \ {i} : Sleeping(tasks[j])}

\* task i after the run that took it to u
Ran(i, u) ==
    /\ tasks' = [tasks EXCEPT ![i] = u]
    /\ loop' = IF Sleeping(u) THEN AsyncSleep(i) ELSE 0

\* the program starts scrape_async as task i: a submit, then the polls of
\* wait_for_job_async
ConcCall(i) ==
    /\ tasks[i].pc = "idle"
    /\ CanRun(i)
    /\ Ran(i, AsyncCall("scrape", TRUE, 1, 1, Absent))
    /\ GetAsyncClientStep
    /\ overtaken' = overtaken \cup Passed(i)
    /\ UNCHANGED <<cfgvars, callvars, sendvars, pollvars, pc, result, now, twin,
                   datavars, callers>>

\* await client.request of task i is answered by r
ConcReply(i, r) ==
    /\ tasks[i].pc = "send"
    /\ CanRun(i)
    /\ Ran(i, AsyncOnReply(tasks[i], r))
    /\ overtaken' = overtaken \cup Passed(i)
    /\ UNCHANGED <<cfgvars, callvars, sendvars, pollvars, pc, result, now, twin,
                   lifevars, datavars, callers>>

\* the retry sleep of task i ends
ConcBackoffDone(i) ==
    /\ tasks[i].pc = "backoff"
    /\ CanRun(i)
    /\ Ran(i, AsyncBackoffDone(tasks[i]))
    /\ overtaken' = (overtaken \ {i}) \cup
                       (IF AsyncBackoffDone(tasks[i]).pc = "send" THEN Passed(i) ELSE {})
    /\ UNCHANGED <<cfgvars, callvars, sendvars, pollvars, pc, result, now, twin,
                   lifevars, datavars, callers>>

\* the poll sleep of task i ends
ConcPollSleepDone(i) ==
    /\ tasks[i].pc = "poll_sleep"
    /\ CanRun(i)
    /\ Ran(i, AsyncPollSleepDone(tasks[i]))
    /\ overtaken' = (overtaken \ {i}) \cup
                       (IF AsyncPollSleepDone(tasks[i]).pc = "send" THEN Passed(i) ELSE {})
    /\ UNCHANGED <<cfgvars, callvars, sendvars, pollvars, pc, result, now, twin,
                   lifevars, datavars, callers>>

ConcInit ==
    /\ api_key = "k1"
    /\ base_url = DEFAULT_BASE_URL
    /\ timeout = DEFAULT_TIMEOUT
    /\ max_retries = 2
    /\ retry_delay = 1
    /\ Constructed
    /\ NothingApplied

ConcNext ==
    \/ \E i \in TaskIds : ConcCall(i)
    \/ \E i \in TaskIds : \E r \in ConcReplies(tasks[i]) : ConcReply(i, r)
    \/ \E i \in TaskIds : ConcBackoffDone(i)
    \/ \E i \in TaskIds : ConcPollSleepDone(i)

ConcSpec == ConcInit /\ [][ConcNext]_vars

----------------------------------------------------------------------------
(* A client from its construction to its closing *)

\* the program is between two calls of the blocking client
Between == pc \in {"idle", "done"}

\* close(), called between two calls
CloseBetween(l) == Between /\ Close(l)

\* aclose(), awaited between two calls
ACloseBetween == Between /\ AClose

ClientInit ==
    /\ api_key \in {"k1", "k2"}
    /\ base_url = DEFAULT_BASE_URL
    /\ timeout = DEFAULT_TIMEOUT
    /\ max_retries \in 1..2
    /\ retry_delay = DEFAULT_RETRY_DELAY
    /\ Constructed
    /\ NothingApplied

ClientNext ==
    \/ \E s \in BOOLEAN, pi \in PollIntervals, pt \in PollTimeouts : Scrape(s, pi, pt)
    \/ \E j \in JobIds, pi \in PollIntervals, pt \in PollTimeouts : WaitForJob(j, pi, pt)
    \/ \E j \in JobIds : GetJobStatus(j)
    \/ EstimateCost
    \/ GetUsage
    \/ \E r \in Replies : Attempt(r)
    \/ BackoffDone
    \/ PollSleepDone
    \/ \E l \in LoopStates : CloseBetween(l)
    \/ ACloseBetween

ClientSpec == ClientInit /\ [][ClientNext]_vars

----------------------------------------------------------------------------
(* The constructor, the option objects, the request builder and the parser, *)
(* each applied on its own to arguments drawn at the start                  *)

ValueErrorOf(msg) == [kind |-> "ValueError", message |-> msg]

Raises(e) == [kind |-> "raise", error |-> e]

\* the api_key argument and os.environ.get("ALTERLAB_API_KEY"): missing
\* (None), empty, or a key
ApiKeyArguments == {Absent, "", "k1"}

ApiKeyEnvironments == {Absent, "", "k2"}

\* mutant: the environment variable wins over the argument
ApiKeyOfEnvFirst(a, e) == IF Truthy(e) THEN e ELSE a

\* api_key or os.environ.get("ALTERLAB_API_KEY")
ApiKeyOf(a, e) == IF Truthy(a) THEN a ELSE e

\* AlterLab.__init__ with the api_key argument a under the environment e
NewClient(a, e) ==
    IF ~Truthy(ApiKeyOf(a, e))
    THEN Raises(ValueErrorOf("API key required"))
    ELSE [kind |-> "AlterLab", api_key |-> ApiKeyOf(a, e)]

WaitConditions == {"domcontentloaded", "networkidle", "load"}

\* the arguments AdvancedOptions(...) may be given
AdvancedOptionsArguments ==
    [render_js : BOOLEAN, screenshot : BOOLEAN, markdown : BOOLEAN,
     generate_pdf : BOOLEAN, ocr : BOOLEAN, use_proxy : BOOLEAN,
     use_own_proxy : BOOLEAN, use_system_proxy : BOOLEAN,
     proxy_integration_id : {Absent, "p1"}, proxy_country : {Absent, "US"},
     wait_condition : WaitConditions \cup {"idle"},
     remove_cookie_banners : BOOLEAN]

\* mutant: generate_pdf is not checked at construction
PostInitScreenshotOnly(o) ==
    IF o.screenshot /\ ~o.render_js
    THEN ValueErrorOf("screenshot requires render_js=True")
    ELSE IF o.wait_condition \notin WaitConditions
    THEN ValueErrorOf("wait_condition must be 'domcontentloaded', 'networkidle', or 'load'")
    ELSE NoError

\* AdvancedOptions.__post_init__: the error raised, if any
PostInit(o) ==
    IF o.screenshot /\ ~o.render_js
    THEN ValueErrorOf("screenshot requires render_js=True")
    ELSE IF o.generate_pdf /\ ~o.render_js
    THEN ValueErrorOf("generate_pdf requires render_js=True")
    ELSE IF o.wait_condition \notin WaitConditions
    THEN ValueErrorOf("wait_condition must be 'domcontentloaded', 'networkidle', or 'load'")
    ELSE NoError

\* AdvancedOptions(...): the instance, unless __post_init__ raises
NewAdvancedOptions(o) ==
    IF PostInit(o) # NoError
    THEN Raises(PostInit(o))
    ELSE [kind |-> "AdvancedOptions", fields |-> o]

\* Python values as the arguments carry them and as json encodes them (None
\* is encoded as null)
PyNone == [kind |-> "null"]

PyBool(b) == [kind |-> "bool", v |-> b]

PyInt(n) == [kind |-> "int", v |-> n]

PyStr(x) == [kind |-> "str", v |-> x]

PyList(q) == [kind |-> "list", v |-> q]

PyDict(f) == [kind |-> "dict", v |-> f]

\* an Optional[str] field: None or the string
OptStr(x) == IF x = Absent THEN PyNone ELSE PyStr(x)

\* Python truthiness: None, False, 0, "", [] and {} are falsy; an instance of
\* a dataclass is truthy
PyTruthy(x) ==
    CASE x.kind = "null" -> FALSE
      [] x.kind = "bool" -> x.v
      [] x.kind = "int"  -> x.v # 0
      [] x.kind = "str"  -> x.v # ""
      [] x.kind = "list" -> Len(x.v) > 0
      [] x.kind = "dict" -> DOMAIN x.v # {}
      [] OTHER           -> TRUE

\* the defaults of AdvancedOptions' fields
AdvancedDefaults ==
    [render_js |-> FALSE, screenshot |-> FALSE, markdown |-> FALSE,
     generate_pdf |-> FALSE, ocr |-> FALSE, use_proxy |-> FALSE,
     use_own_proxy |-> FALSE, use_system_proxy |-> FALSE,
     proxy_integration_id |-> Absent, proxy_country |-> Absent,
     wait_condition |-> "networkidle", remove_cookie_banners |-> TRUE]

\* AdvancedOptions.to_dict: every field under its name, None included
AdvancedToDict(o) ==
    [render_js |-> PyBool(o.render_js), screenshot |-> PyBool(o.screenshot),
     markdown |-> PyBool(o.markdown), generate_pdf |-> PyBool(o.generate_pdf),
     ocr |-> PyBool(o.ocr), use_proxy |-> PyBool(o.use_proxy),
     use_own_proxy |-> PyBool(o.use_own_proxy),
     use_system_proxy |-> PyBool(o.use_system_proxy),
     proxy_integration_id |-> OptStr(o.proxy_integration_id),
     proxy_country |-> OptStr(o.proxy_country),
     wait_condition |-> PyStr(o.wait_condition),
     remove_cookie_banners |-> PyBool(o.remove_cookie_banners)]

\* CostControls(...) as the builder may be given it
CostControlsArguments ==
    [max_tier : {Absent, "3"}, prefer_cost : {FALSE}, prefer_speed : {FALSE},
     fail_fast : {FALSE}]

CostControls(c) == [kind |-> "CostControls", fields |-> c]

\* CostControls.to_dict: max_tier only when set
CostControlsToDict(c) ==
    [k \in {"prefer_cost", "prefer_speed", "fail_fast"}
           \cup (IF Truthy(c.max_tier) THEN {"max_tier"} ELSE {}) |->
        IF k = "max_tier" THEN PyStr(c.max_tier) ELSE PyBool(c[k])]

\* the keys _build_scrape_payload always sets
RequiredKeys ==
    {"url", "mode", "sync", "cache", "force_refresh", "include_raw_html",
     "timeout", "evidence", "promote_schema_org", "wait_until"}

\* the keys _build_scrape_payload sets on a condition, for the arguments a
ConditionalKeys(a) ==
    (IF a.cache_ttl # PyNone THEN {"cache_ttl"} ELSE {})
    \cup {k \in {"advanced", "cost_controls", "formats", "extraction_schema",
                 "extraction_prompt", "extraction_profile", "wait_for",
                 "screenshot"} : PyTruthy(a[k])}
    \cup (IF a.enable_scroll # PyNone THEN {"enable_scroll"} ELSE {})
    \cup (IF a.mode = PyStr("pdf") THEN {"pdf_format"} ELSE {})
    \cup (IF a.mode = PyStr("ocr") THEN {"ocr_language"} ELSE {})

\* _build_scrape_payload(**a) on a client whose timeout is t
BuildScrapePayload(a, t) ==
    [k \in RequiredKeys \cup ConditionalKeys(a) |->
        CASE k = "timeout"       -> IF PyTruthy(a.timeout) THEN a.timeout ELSE PyInt(t)
          [] k = "advanced"      -> PyDict(AdvancedToDict(a.advanced.fields))
          [] k = "cost_controls" -> PyDict(CostControlsToDict(a.cost_controls.fields))
          [] OTHER               -> a[k]]

\* the defaults of scrape's parameters
ScrapeDefaults ==
    [url |-> PyStr(CallUrl), mode |-> PyStr("auto"), sync |-> PyBool(TRUE),
     advanced |-> PyNone, cost_controls |-> PyNone, cache |-> PyBool(FALSE),
     cache_ttl |-> PyNone, force_refresh |-> PyBool(FALSE),
     include_raw_html |-> PyBool(FALSE), timeout |-> PyNone, formats |-> PyNone,
     extraction_schema |-> PyNone, extraction_prompt |-> PyNone,
     extraction_profile |-> PyNone, evidence |-> PyBool(FALSE),
     promote_schema_org |-> PyBool(TRUE), wait_for |-> PyNone,
     screenshot |-> PyBool(FALSE), wait_until |-> PyStr("networkidle"),
     enable_scroll |-> PyNone, pdf_format |-> PyStr("markdown"),
     ocr_language |-> PyStr("eng")]

\* AdvancedOptions instances a caller may hold: the ones __post_init__ lets
\* through
AdvancedInstances ==
    {NewAdvancedOptions([AdvancedDefaults EXCEPT !.render_js = r, !.screenshot = x,
                                                !.proxy_country = c]) :
        r \in BOOLEAN, x \in BOOLEAN, c \in {Absent, "US"}}
    \ {Raises(PostInit([AdvancedDefaults EXCEPT !.screenshot = TRUE]))}

\* the arguments the builder is applied to
BuilderArguments ==
    {[ScrapeDefaults EXCEPT !.mode = PyStr(m), !.cache_ttl = ttl, !.advanced = adv,
                            !.cost_controls = cc, !.formats = f,
                            !.extraction_schema = es[1],
                            !.extraction_profile = es[2],
                            !.extraction_prompt = p, !.wait_for = w,
                            !.screenshot = PyBool(x), !.enable_scroll = sc,
                            !.timeout = to] :
        m \in {"auto", "pdf", "ocr"},
        ttl \in {PyNone, PyInt(0), PyInt(60)},
        adv \in {PyNone,
                 NewAdvancedOptions(AdvancedDefaults),
                 NewAdvancedOptions([AdvancedDefaults EXCEPT
                     !.render_js = TRUE, !.screenshot = TRUE,
                     !.proxy_integration_id = "p1", !.proxy_country = "US"])},
        cc \in {PyNone} \cup {CostControls(c) : c \in CostControlsArguments},
        f \in {PyNone, PyList(<<>>), PyList(<<PyStr("text")>>)},
        es \in {<<PyNone, PyNone>>,
                <<PyDict([title |-> PyStr("string")]), PyStr("article")>>},
        p \in {PyNone, PyStr("the price")},
        w \in {PyNone, PyStr(""), PyStr("#main")},
        x \in BOOLEAN,
        sc \in {PyNone, PyBool(FALSE), PyBool(TRUE)},
        to \in {PyNone, PyInt(30)}}

\* mutant: scrape_js passes the caller's options on as they are
ScrapeJsAdvancedAsGiven(adv, shot) ==
    IF PyTruthy(adv) THEN adv
    ELSE NewAdvancedOptions([AdvancedDefaults EXCEPT !.render_js = TRUE])

\* scrape_js: the advanced options passed on to scrape, for the caller's
\* advanced argument adv (None when not given) and the screenshot flag
ScrapeJsAdvanced(adv, shot) ==
    LET a0 == IF PyTruthy(adv) THEN adv
              ELSE NewAdvancedOptions([AdvancedDefaults EXCEPT !.render_js = TRUE])
        a1 == IF ~a0.fields.render_js
              THEN [a0 EXCEPT !.fields.render_js = TRUE] ELSE a0
    IN  IF shot THEN [a1 EXCEPT !.fields.screenshot = TRUE] ELSE a1

\* scrape_js: the caller's own object after the call. `advanced` names the
\* object the caller passed (kwargs.pop(...) or ... yields that very object,
\* an AdvancedOptions instance being truthy), so the two assignments act on it
ScrapeJsCallerAdvanced(adv, shot) ==
    IF PyTruthy(adv) THEN ScrapeJsAdvanced(adv, shot) ELSE adv

\* scrape_js -> scrape: the body passed to _request_with_retry
ScrapeJsBody(adv, shot, w, t) ==
    BuildScrapePayload([ScrapeDefaults EXCEPT !.mode = PyStr("js"),
                                               !.advanced = ScrapeJsAdvanced(adv, shot),
                                               !.wait_for = w], t)

\* AsyncAlterLab.scrape_js -> scrape: the body passed to
\* _async_request_with_retry
AsyncScrapeJsBody(adv, shot, w, t) ==
    BuildScrapePayload([ScrapeDefaults EXCEPT !.mode = PyStr("js"),
                                               !.advanced = ScrapeJsAdvanced(adv, shot),
                                               !.wait_for = w], t)

Body(b) == [kind |-> "body", json |-> b]

\* what a call of scrape_js leaves: the body it sent and the caller's options
\* object as it is afterwards
Called(b, adv) == [kind |-> "body", json |-> b, advanced |-> adv]

\* dict.get(k, default) on the JSON object d
Lookup(d, k, default) == IF k \in DOMAIN d THEN d[k] ELSE default

\* the empty dict {}
EmptyDict == [k \in {} |-> PyNone]

\* mutant: a missing status_code is reported as 0
ScrapeResultDefaultStatusZero(k) ==
    CASE k = "url"               -> PyStr("")
      [] k = "status_code"       -> PyInt(0)
      [] k = "content"           -> PyStr("")
      [] k = "metadata"          -> PyDict(EmptyDict)
      [] k = "headers"           -> PyDict(EmptyDict)
      [] k = "cached"            -> PyBool(FALSE)
      [] k = "response_time_ms"  -> PyInt(0)
      [] k = "size_bytes"        -> PyInt(0)
      [] k = "extraction_method" -> PyStr("algorithmic")
      [] OTHER                   -> PyNone

\* the second argument of data.get(k, ...) in _parse_scrape_response (None
\* when there is none)
ScrapeResultDefault(k) ==
    CASE k = "url"               -> PyStr("")
      [] k = "status_code"       -> PyInt(200)
      [] k = "content"           -> PyStr("")
      [] k = "metadata"          -> PyDict(EmptyDict)
      [] k = "headers"           -> PyDict(EmptyDict)
      [] k = "cached"            -> PyBool(FALSE)
      [] k = "response_time_ms"  -> PyInt(0)
      [] k = "size_bytes"        -> PyInt(0)
      [] k = "extraction_method" -> PyStr("algorithmic")
      [] OTHER                   -> PyNone

\* the second argument of billing_data.get(k, ...)
BillingDefault(k) ==
    CASE k = "total_credits" -> PyInt(0)
      [] k = "tier_used"     -> PyStr("1")
      [] k = "savings"       -> PyInt(0)
      [] k = "byop_applied"  -> PyBool(FALSE)
      [] OTHER               -> PyNone

\* the fields of ScrapeResult read from the payload under their own name
ScrapeResultKeys ==
    {"url", "status_code", "content", "title", "author", "published_at",
     "metadata", "headers", "cached", "cached_at", "expires_at",
     "response_time_ms", "size_bytes", "raw_html", "screenshot_url", "pdf_url",
     "ocr_results", "proxy_used", "filtered_content", "extraction_method",
     "method_details"}

\* the fields of BillingDetails read from the billing payload under their
\* own name
BillingKeys ==
    {"total_credits", "tier_used", "savings", "optimization_suggestion",
     "byop_applied", "byop_discount_percent", "original_cost_microcents",
     "final_cost_microcents"}

\* TierEscalation(...) from the element e of the escalations list
ParseEscalation(e) ==
    [kind |-> "TierEscalation",
     tier |-> Lookup(e, "tier", PyStr("1")),
     result |-> Lookup(e, "result", PyStr("success")),
     credits |-> Lookup(e, "credits", PyInt(0)),
     duration_ms |-> Lookup(e, "duration_ms", PyNone),
     error |-> Lookup(e, "error", PyNone)]

\* mutant: the escalations come out in reverse order
ParseEscalationsReversed(q) ==
    [i \in 1..Len(q) |-> ParseEscalation(q[Len(q) + 1 - i].v)]

\* the list comprehension over billing_data.get("escalations", [])
ParseEscalations(q) == [i \in 1..Len(q) |-> ParseEscalation(q[i].v)]

\* BillingDetails(...) from the billing payload b
ParseBilling(b) ==
    [k \in BillingKeys \cup {"kind", "escalations"} |->
        CASE k = "kind"        -> "BillingDetails"
          [] k = "escalations" -> ParseEscalations(Lookup(b, "escalations", PyList(<<>>)).v)
          [] OTHER             -> Lookup(b, k, BillingDefault(k))]

\* what _parse_scrape_response cannot read: a billing value that is no
\* object (.get fails), an escalations value that is no list (not iterable),
\* an escalation that is no object
Unreadable(data) ==
    LET b == Lookup(data, "billing", PyDict(EmptyDict))
    IN  IF b.kind # "dict" THEN {"AttributeError"}
        ELSE LET q == Lookup(b.v, "escalations", PyList(<<>>))
             IN  IF q.kind # "list" THEN {"TypeError"}
                 ELSE IF \E i \in 1..Len(q.v) : q.v[i].kind # "dict"
                 THEN {"AttributeError"}
                 ELSE {}

\* _parse_scrape_response(data), every field
ParseScrapeResponseBody(data) ==
    IF Unreadable(data) # {}
    THEN Raises([kind |-> CHOOSE e \in Unreadable(data) : TRUE])
    ELSE [k \in ScrapeResultKeys \cup {"kind", "billing"} |->
            CASE k = "kind"    -> "ScrapeResult"
              [] k = "billing" -> ParseBilling(Lookup(data, "billing", PyDict(EmptyDict)).v)
              [] OTHER         -> Lookup(data, k, ScrapeResultDefault(k))]

\* the function f with the key k set to v
With(f, k, v) == [x \in DOMAIN f \cup {k} |-> IF x = k THEN v ELSE f[x]]

\* the function f on the keys ks only
Only(f, ks) == [x \in DOMAIN f \cap ks |-> f[x]]

\* a response body with every field the model varies
FullBody ==
    [url |-> PyStr(CallUrl), status_code |-> PyInt(404), content |-> PyStr("hello"),
     metadata |-> PyDict([lang |-> PyStr("en")]),
     headers |-> PyDict([server |-> PyStr("nginx")]),
     cached |-> PyBool(TRUE), response_time_ms |-> PyInt(5),
     size_bytes |-> PyInt(7), extraction_method |-> PyStr("llm"),
     title |-> PyStr("T"), raw_html |-> PyStr("<p>")]

\* a billing payload with every field the model varies
FullBilling ==
    [total_credits |-> PyInt(4), tier_used |-> PyStr("3"), savings |-> PyInt(1)]

\* the elements of an escalations list
EscalationPayloads ==
    {PyDict(Only([tier |-> PyStr("3"), result |-> PyStr("failed"),
                  credits |-> PyInt(2)], ks)) :
        ks \in SUBSET {"tier", "result", "credits"}}

\* the lists of at most n escalations
RECURSIVE EscalationLists(_)
EscalationLists(n) ==
    IF n = 0 THEN {<<>>}
    ELSE EscalationLists(n - 1) \cup
         {Append(q, e) : q \in {p \in EscalationLists(n - 1) : Len(p) = n - 1},
                         e \in EscalationPayloads}

\* the response bodies the parser is applied to: every subset of the fields
\* missing, the billing value missing, null, empty or filled; and billing
\* payloads with the escalations missing, null or a list
ResponseBodies ==
    {Only(FullBody, ks) : ks \in SUBSET DOMAIN FullBody}
    \cup
    {With(Only(FullBody, ks), "billing", b) :
        ks \in SUBSET DOMAIN FullBody,
        b \in {PyNone, PyDict(EmptyDict), PyDict(FullBilling)}}
    \cup
    {[billing |-> PyDict(Only(FullBilling, ks))] : ks \in SUBSET {"total_credits", "tier_used"}}
    \cup
    {[billing |-> PyDict(With(Only(FullBilling, ks), "escalations", q))] :
        ks \in SUBSET {"total_credits", "tier_used"},
        q \in {PyNone} \cup {PyList(p) : p \in EscalationLists(MaxEscalations)}}

\* the function and the arguments it is applied to
Inputs ==
    [fn : {"AlterLab"}, api_key : ApiKeyArguments, env : ApiKeyEnvironments]
    \cup
    [fn : {"AdvancedOptions"}, fields : AdvancedOptionsArguments]
    \cup
    [fn : {"scrape_js", "async_scrape_js"},
     advanced : {PyNone} \cup AdvancedInstances, screenshot : BOOLEAN,
     wait_for : {PyNone, PyStr("#main")}]
    \cup
    [fn : {"_build_scrape_payload"}, args : BuilderArguments]
    \cup
    [fn : {"_parse_scrape_response"}, data : ResponseBodies]

\* AlterLab(api_key=...)
Construct ==
    /\ input.fn = "AlterLab" /\ output = Pending
    /\ output' = NewClient(input.api_key, input.env)
    /\ UNCHANGED <<input, callstatic>>

\* AdvancedOptions(...)
ConstructAdvancedOptions ==
    /\ input.fn = "AdvancedOptions" /\ output = Pending
    /\ output' = NewAdvancedOptions(input.fields)
    /\ UNCHANGED <<input, callstatic>>

\* AlterLab.scrape_js(url, screenshot=..., wait_for=..., advanced=...)
ScrapeJs ==
    /\ input.fn = "scrape_js" /\ output = Pending
    /\ output' = Called(ScrapeJsBody(input.advanced, input.screenshot,
                                     input.wait_for, timeout),
                        ScrapeJsCallerAdvanced(input.advanced, input.screenshot))
    /\ UNCHANGED <<input, callstatic>>

\* AsyncAlterLab.scrape_js(url, screenshot=..., wait_for=..., advanced=...)
AsyncScrapeJs ==
    /\ input.fn = "async_scrape_js" /\ output = Pending
    /\ output' = Called(AsyncScrapeJsBody(input.advanced, input.screenshot,
                                          input.wait_for, timeout),
                        ScrapeJsCallerAdvanced(input.advanced, input.screenshot))
    /\ UNCHANGED <<input, callstatic>>

\* _build_scrape_payload(...)
BuildPayload ==
    /\ input.fn = "_build_scrape_payload" /\ output = Pending
    /\ output' = Body(BuildScrapePayload(input.args, timeout))
    /\ UNCHANGED <<input, callstatic>>

\* _parse_scrape_response(data)
ParseResponse ==
    /\ input.fn = "_parse_scrape_response" /\ output = Pending
    /\ output' = ParseScrapeResponseBody(input.data)
    /\ UNCHANGED <<input, callstatic>>

DataInit ==
    /\ api_key = "k1"
    /\ base_url = DEFAULT_BASE_URL
    /\ timeout = DEFAULT_TIMEOUT
    /\ max_retries = DEFAULT_MAX_RETRIES
    /\ retry_delay = DEFAULT_RETRY_DELAY
    /\ Constructed
    /\ input \in Inputs
    /\ output = Pending

DataNext ==
    \/ Construct
    \/ ConstructAdvancedOptions
    \/ ScrapeJs
    \/ AsyncScrapeJs
    \/ BuildPayload
    \/ ParseResponse

DataSpec == DataInit /\ [][DataNext]_vars

----------------------------------------------------------------------------
(* Properties of the transport *)

\* the last request of the current send was answered by an HTTP response
Answered == response.kind = "http"

\* ... by a terminal client error: 400..499 other than 429
TerminalAnswer ==
    /\ Answered
    /\ response.status_code >= 400 /\ response.status_code < 500
    /\ response.status_code # 429

\* ... by a response the send returns: status < 400
GoodAnswer == Answered /\ response.status_code < 400

\* the call ended by raising
Raised == pc = "done" /\ result.tag = "raise"

\* the send is still running
Sending == pc \in {"send", "backoff"}

Max(a, b) == IF a > b THEN a ELSE b

\* C1: a response 400..499 other than 429 stops the send at once: no sleep
\* follows it, no further request is issued and a typed API error carrying
\* that status is raised, at whichever attempt it arrives and for every
\* max_retries; for 401 the error is the authentication error.
C1_TerminalClientError ==
    TerminalAnswer =>
        /\ Raised
        /\ result.error.kind \in ApiErrorKinds
        /\ result.error.status_code = response.status_code
        /\ response.status_code = 401 => result.error.kind = "AuthenticationError"
        /\ sleeps = requests - 1
        /\ requests = attempt + 1

\* a 401 arrives at the second attempt of a send with max_retries = 3
C1_Witness ==
    /\ TerminalAnswer /\ response.status_code = 401
    /\ max_retries = 3 /\ requests = 2 /\ sleeps = 1
    /\ Raised /\ result.error.kind = "AuthenticationError"

\* C2: k retryable failures (429 or >= 500) followed by a response < 400,
\* k < max_retries: the send goes on after each failure with one sleep per
\* failure, and on the response < 400 it has issued k+1 requests, slept k
\* times, hands that response to its caller and issues nothing after it.
C2_RetryThenReturn ==
    /\ (netfails = 0 /\ retryable = requests /\ requests >= 1
            /\ retryable < max_retries)
         => (Sending /\ sleeps = retryable)
    /\ (netfails = 0 /\ GoodAnswer)
         => /\ ~Sending
            /\ requests = retryable + 1
            /\ sleeps = retryable
            /\ op = "get_job_status" =>
                  result = [tag |-> "return",
                            value |-> JobStatusOf(job_id, response.data)]
            /\ op \in {"get_usage", "estimate_cost"} =>
                  (pc = "done" /\ result.tag = "return")

C4_Original ==
    (pc = "backoff" /\ Answered) =>
        {sleep.dur} = IF response.retry_after # Absent
                      THEN ParseFloat(response.retry_after)
                      ELSE {retry_delay * (2 ^ (requests - 1))}

\* C4, amended: the sleep after a retryable response at attempt index
\* requests - 1 (counted over all attempts of the send) lasts the
\* Retry-After value when the header is present with a non-empty value, and
\* retry_delay * 2^index when it is missing or empty.
C4_SleepDuration ==
    (pc = "backoff" /\ Answered) =>
        /\ IsRetryableStatus(response.status_code)
        /\ {sleep.dur} = IF response.retry_after \notin {Absent, ""}
                         THEN ParseFloat(response.retry_after)
                         ELSE {retry_delay * (2 ^ (requests - 1))}

\* a header-less 503 at the third attempt, after a network failure and a
\* sleep taken from a header
C4_Witness ==
    /\ pc = "backoff" /\ Answered /\ response.retry_after = Absent
    /\ requests = 3 /\ netfails = 1 /\ retry_delay = 2 /\ sleep.dur = 8

\* C5: when all max_retries attempts failed in a retryable way, the send
\* raises, and the error is the one of the final attempt: a network error
\* if it failed at network level, else an API error with its HTTP status.
C5_LastErrorSurfaced ==
    (pc = "done" /\ max_retries >= 1 /\ requests = max_retries
                 /\ retryable + netfails = max_retries) =>
        /\ result.tag = "raise"
        /\ IF response.kind = "net"
           THEN result.error = NetworkError
           ELSE /\ result.error.kind \in ApiErrorKinds
                /\ result.error.status_code = response.status_code

\* C6: a network failure before the last attempt is followed by a sleep of
\* retry_delay * 2^index and another attempt; at the last attempt no sleep
\* follows and the network error, not an API error, is raised.
C6_NetworkFailure ==
    /\ (response.kind = "net" /\ requests < max_retries) =>
          /\ Sending
          /\ sleeps = requests
          /\ sleep.dur = retry_delay * (2 ^ (requests - 1))
    /\ (response.kind = "net" /\ requests >= max_retries) =>
          /\ Raised
          /\ result.error = NetworkError
          /\ result.error.kind \notin ApiErrorKinds
          /\ sleeps = requests - 1

\* the last of three attempts fails at network level, after a 503
C6_Witness ==
    /\ response.kind = "net" /\ max_retries = 3 /\ requests = 3
    /\ retryable = 1 /\ sleeps = 2 /\ Raised /\ result.error = NetworkError

\* C7: an operation that fails because every attempt was answered 429,
\* until the retry loop ran out, surfaces the rate-limit error, carrying the
\* Retry-After value of the response when the header was there.
C7_RateLimitSurfaced ==
    (pc = "done" /\ max_retries >= 1 /\ throttled = max_retries
                 /\ requests = max_retries /\ attempt = max_retries) =>
        /\ result.tag = "raise"
        /\ result.error.kind = "RateLimitError"
        /\ Truthy(response.retry_after) =>
              result.error.retry_after = ParseInt(response.retry_after)

\* C8: 401 surfaces the authentication error, 402 the insufficient-balance
\* error, 422 the validation error and any other 400..499 except 429 the
\* generic API error with that status; the same for every operation.
C8_StatusMapping ==
    TerminalAnswer =>
        /\ Raised
        /\ result.error.status_code = response.status_code
        /\ result.error.message = Detail(response)
        /\ result.error.kind =
              CASE response.status_code = 401 -> "AuthenticationError"
                [] response.status_code = 402 -> "InsufficientCreditsError"
                [] response.status_code = 422 -> "ValidationError"
                [] OTHER -> "AlterLabAPIError"

\* a 402 ends a poll of a scrape that was accepted as a job
C8_Witness ==
    /\ TerminalAnswer /\ response.status_code = 402
    /\ op = "scrape" /\ Polling /\ polls = 2
    /\ Raised /\ result.error.kind = "InsufficientCreditsError"

----------------------------------------------------------------------------
(* Properties of the job poller *)

\* the last poll returned a JobStatus
Polled == Polling /\ status.kind = "JobStatus"

\* C9: n polls that report a non-terminal status followed by one that
\* reports succeeded with a result: the call made n+1 polls, slept n times
\* and returns the result parsed from that last poll.
C9_PollUntilSucceeded ==
    (Polled /\ status.status = "succeeded" /\ status.result # NoValue) =>
        /\ pc = "done"
        /\ result = [tag |-> "return", value |-> status.result]
        /\ GoodAnswer
        /\ result.value = ParseScrapeResponse(response.data.result)
        /\ polls = nonterminal + 1
        /\ poll_sleeps = nonterminal

\* two non-terminal polls, then succeeded with a result: returned after two sleeps
C9_Witness ==
    /\ op = "wait_for_job" /\ pc = "done" /\ result.tag = "return"
    /\ polls = 3 /\ nonterminal = 2 /\ poll_sleeps = 2
    /\ result.value.content = [str |-> "hello"]

\* C10: a poll that reports succeeded without a result ends the call with
\* the scrape-failure error "Job completed but no result returned"; nothing
\* is returned and no poll or sleep follows.
C10_SucceededWithoutResult ==
    (Polled /\ status.status = "succeeded" /\ status.result = NoValue) =>
        /\ Raised
        /\ result.error.kind = "ScrapeError"
        /\ result.error.message = "Job completed but no result returned"
        /\ polls = nonterminal + 1
        /\ poll_sleeps = nonterminal

\* the second poll reports succeeded and carries no result
C10_Witness ==
    /\ Polled /\ status.status = "succeeded" /\ status.result = NoValue
    /\ polls = 2 /\ response.data.result = NoResultValue
    /\ Raised /\ result.error.kind = "ScrapeError"

\* C11: a poll that reports failed ends the call with the scrape-failure
\* error whose message is the server's error string when it sent one (a
\* non-empty string) and "Job failed" otherwise, and whose code is
\* JOB_FAILED; no further poll or sleep follows.
C11_JobFailed ==
    (Polled /\ status.status = "failed") =>
        /\ Raised
        /\ GoodAnswer
        /\ result.error.kind = "ScrapeError"
        /\ result.error.code = "JOB_FAILED"
        /\ result.error.message =
              IF response.data.error \in {Absent, ""}
              THEN "Job failed" ELSE response.data.error
        /\ polls = nonterminal + 1
        /\ poll_sleeps = nonterminal

\* the second poll of a wait_for_job reports failed with the error "boom"
C11_Witness ==
    /\ op = "wait_for_job" /\ Polled /\ status.status = "failed"
    /\ response.data.error = "boom" /\ polls = 2 /\ poll_sleeps = 1
    /\ Raised /\ result.error.message = "boom"

\* C12: when the time elapsed since polling began exceeds poll_timeout
\* before any poll reported a terminal status, the call raises the timeout
\* error naming the job id and poll_timeout: it neither returns a result nor
\* raises a scrape-failure error.  (Stated for the calls whose last request
\* was answered below 400, that is, which no transport error ended.)
C12_TimeoutRaised ==
    (Polling /\ pc = "done" /\ GoodAnswer
             /\ DeadlinePassed(now, start_time, poll_timeout)) =>
        /\ Raised
        /\ result.error = TimeoutError(job_id, poll_timeout)

\* C13: no HTTP request of the poll loop, the retries inside one poll
\* included, is issued at a time when the time elapsed since polling began
\* already exceeds poll_timeout.
C13_NoRequestPastDeadline ==
    [][(Polling /\ requests' = requests + 1) =>
          ~DeadlinePassed(now', start_time, poll_timeout)]_vars

\* a status string the poll loop has no branch for (or none at all)
UnknownStatus(v) == v \notin {"pending", "running", "succeeded", "failed"}

\* C14: a job-status payload whose status is absent or is a string other
\* than pending, running, succeeded, failed is handled as pending: no error
\* is raised for it, the loop sleeps poll_interval and then polls again
\* (or, the deadline having passed during the sleep, raises the timeout).
C14_UnknownStatusAsPending ==
    /\ []((Polled /\ GoodAnswer /\ UnknownStatus(response.data.status)) =>
            /\ \/ pc = "poll_sleep" /\ result = NoResult
               \/ /\ Raised /\ result.error = TimeoutError(job_id, poll_timeout)
                  /\ DeadlinePassed(now, start_time, poll_timeout)
            /\ sleep = [kind |-> "poll", dur |-> poll_interval]
            /\ nonterminal = polls
            /\ poll_sleeps = polls)
    /\ [][(pc = "poll_sleep" /\ UnknownStatus(response.data.status)) =>
            /\ now' = now + poll_interval
            /\ \/ pc' = "send" /\ polls' = polls + 1 /\ requests' = 0
               \/ /\ pc' = "done" /\ polls' = polls
                  /\ result'.error = TimeoutError(job_id, poll_timeout)]_vars

\* the second poll of a scrape's job carries no status and the loop sleeps
C14_Witness ==
    /\ op = "scrape" /\ Polled /\ GoodAnswer /\ response.data.status = Absent
    /\ pc = "poll_sleep" /\ polls = 2 /\ poll_sleeps = 2

----------------------------------------------------------------------------
(* Properties of scrape's dispatch on the submit response *)

\* the submit of a scrape was answered, and no poll has replaced the answer
Submitted == op = "scrape" /\ job_id = Absent /\ GoodAnswer

C17_PollerOutcome ==
    /\ (Submitted /\ sync) => ~IsAccepted(response)
    /\ (op = "scrape" /\ job_id # Absent) =>
          /\ sync /\ job_id \in JobIds /\ polls >= 1
          /\ sleep.kind = "poll" => sleep.dur = poll_interval
          /\ pc = "done" =>
                \/ /\ result = [tag |-> "raise",
                                 error |-> TimeoutError(job_id, poll_timeout)]
                   /\ DeadlinePassed(now, start_time, poll_timeout)
                \/ /\ GoodAnswer
                   /\ status = JobStatusOf(job_id, response.data)
                   /\ PollStep(status).next \in {"return", "raise"}
                   /\ result = IF PollStep(status).next = "return"
                               THEN [tag |-> "return", value |-> PollStep(status).value]
                               ELSE [tag |-> "raise", error |-> PollStep(status).error]
                \/ ~GoodAnswer /\ Raised

\* the submit was retried once, the job polled twice and its result returned
C17_Witness ==
    /\ op = "scrape" /\ sync /\ job_id = "j1" /\ start_time > 0 /\ polls = 2
    /\ pc = "done" /\ result.tag = "return"
    /\ result.value.content = [str |-> "bye"]

\* C18: a submit answered below 400 that is not a 202 carrying a job_id is
\* parsed at once: scrape issues no job-status request and returns the
\* result parsed from that body, whatever the sync flag.
C18_ParsedAtOnce ==
    (Submitted /\ ~(response.status_code = 202 /\ response.data.job_id # Absent)) =>
        /\ pc = "done"
        /\ result = [tag |-> "return", value |-> ParseScrapeResponse(response.data)]
        /\ polls = 0 /\ poll_sleeps = 0

\* a 202 without job_id answers a scrape with sync = true
C18_Witness ==
    /\ Submitted /\ sync /\ response.status_code = 202
    /\ response.data.job_id = Absent /\ response.data.content = "hello"
    /\ pc = "done" /\ result.value.content = [str |-> "hello"]

\* C19: every JobStatus that get_job_status returns carries a result only
\* when its status is succeeded.
C19_ResultOnlyWhenSucceeded ==
    (op = "get_job_status" /\ pc = "done" /\ result.tag = "return") =>
        (result.value.result # NoValue => result.value.status = "succeeded")

----------------------------------------------------------------------------
(* Properties of the clients' lifetime *)

\* C20: whenever a scoped block over the client is left, its body having
\* ended normally or raised, the HTTP clients the instance held (blocking
\* and async) have been closed and the instance holds them no longer.
C20_ClosedOnExit ==
    [][(scope \in Blocks /\ scope' = "left") =>
          /\ client' = 0 /\ async_client' = 0
          /\ client # 0 => http'[client] = "closed"
          /\ async_client # 0 => ahttp'[async_client] = "closed"]_vars

----------------------------------------------------------------------------
(* The two surfaces *)

\* the request the blocking call is issuing
CallRequest ==
    IF pc = "idle" THEN NoRequest
    ELSE Request(IF Polling \/ op = "get_job_status" THEN "job" ELSE op, job_id)

\* the blocking call, seen as the state of an async call
BlockingView ==
    [pc |-> pc, op |-> op, sync |-> sync, poll_interval |-> poll_interval,
     poll_timeout |-> poll_timeout, attempt |-> attempt, requests |-> requests,
     sleeps |-> sleeps, sleep |-> sleep, last_error |-> last_error,
     job_id |-> job_id, start_time |-> start_time, polls |-> polls,
     poll_sleeps |-> poll_sleeps, status |-> status, result |-> result,
     now |-> now, request |-> CallRequest]

----------------------------------------------------------------------------
(* Concurrent async calls *)

\* one run of task i: a response arrives or a sleep ends
TaskStep(i) ==
    \/ \E r \in ConcReplies(tasks[i]) : ConcReply(i, r)
    \/ ConcBackoffDone(i)
    \/ ConcPollSleepDone(i)

\* what task i can become from its own state, whatever the others do
OwnSuccessors(t) ==
    CASE t.pc = "send"       -> {AsyncOnReply(t, r) : r \in ConcReplies(t)}
      [] t.pc = "backoff"    -> {AsyncBackoffDone(t)}
      [] t.pc = "poll_sleep" -> {AsyncPollSleepDone(t)}
      [] OTHER               -> {AsyncCall("scrape", TRUE, 1, 1, Absent)}

\* C21: with several async calls running on one client, a call that is asleep
\* (retry backoff or poll interval) never keeps another call from going on: in
\* every reachable state every unfinished call can take its next step (its
\* response can be delivered, its own sleep can end), and every step moves one
\* call only, to a state that depends on that call's own state and reply.
C21_SleepsDoNotBlock ==
    /\ [](\A i \in TaskIds :
            tasks[i].pc \in {"send", "backoff", "poll_sleep"} => ENABLED TaskStep(i))
    /\ [][\A i \in TaskIds :
            tasks'[i] # tasks[i] =>
               /\ tasks'[i] \in OwnSuccessors(tasks[i])
               /\ \A j \in TaskIds \ {i} : tasks'[j] = tasks[j]]_vars

\* a call returned its result on a response that arrived while the other call
\* was in a retry backoff it has not left since
C21_Witness ==
    \E i, j \in TaskIds :
        /\ i # j
        /\ tasks[j].pc = "backoff" /\ j \in overtaken
        /\ tasks[i].pc = "done" /\ tasks[i].result.tag = "return"
        /\ tasks[i].polls > 0

----------------------------------------------------------------------------
(* The static configuration *)

\* C23: no operation changes the client's static configuration: every step
\* of every call (blocking, and async in twin), of the retry and poll loops
\* inside it, and of close and aclose leaves api_key, base_url, timeout,
\* max_retries and retry_delay as the constructor set them.
C23_ConfigurationFrozen ==
    [][/\ api_key' = api_key
       /\ base_url' = base_url
       /\ timeout' = timeout
       /\ max_retries' = max_retries
       /\ retry_delay' = retry_delay]_vars

\* a call that retried and polled has ended and the client was closed after
\* it, under a configuration that is not the default one
C23_Witness ==
    /\ pc = "done" /\ sleeps > 0 /\ polls > 0 /\ twin.pc = "done"
    /\ client = 0 /\ http[1] = "closed"
    /\ api_key = "k2" /\ max_retries = 2

----------------------------------------------------------------------------
(* Construction *)

\* C24: the constructor takes the key from the api_key argument when it
\* provides one (a non-empty string) and otherwise from ALTERLAB_API_KEY;
\* when neither provides a key the constructor raises ValueError and returns
\* no instance, so every client that exists holds a key.
C24_ApiKeySource ==
    (input.fn = "AlterLab" /\ output # Pending) =>
        /\ Truthy(input.api_key) =>
              output.kind = "AlterLab" /\ output.api_key = input.api_key
        /\ (~Truthy(input.api_key) /\ Truthy(input.env)) =>
              output.kind = "AlterLab" /\ output.api_key = input.env
        /\ (~Truthy(input.api_key) /\ ~Truthy(input.env)) =>
              output.kind = "raise" /\ output.error.kind = "ValueError"
        /\ output.kind = "AlterLab" => Truthy(output.api_key)

\* both the argument and the environment hold a key and the argument's is used
C24_Witness ==
    /\ input.fn = "AlterLab" /\ input.api_key = "k1" /\ input.env = "k2"
    /\ output.kind = "AlterLab" /\ output.api_key = "k1"

\* C25: AdvancedOptions(...) with screenshot and without render_js raises
\* ValueError whatever the other fields are, and so does generate_pdf without
\* render_js: no instance is returned that a request could be built from.
C25_ScreenshotNeedsRenderJs ==
    (input.fn = "AdvancedOptions" /\ output # Pending) =>
        /\ ((input.fields.screenshot \/ input.fields.generate_pdf)
              /\ ~input.fields.render_js) =>
              output.kind = "raise" /\ output.error.kind = "ValueError"
        /\ output.kind = "AdvancedOptions" =>
              /\ output.fields = input.fields
              /\ (output.fields.screenshot \/ output.fields.generate_pdf)
                    => output.fields.render_js

\* generate_pdf without render_js is refused, the other fields not being the
\* defaults
C25_Witness ==
    /\ input.fn = "AdvancedOptions"
    /\ input.fields.generate_pdf /\ ~input.fields.screenshot /\ ~input.fields.render_js
    /\ input.fields.markdown /\ input.fields.use_proxy
    /\ input.fields.proxy_country = "US" /\ input.fields.wait_condition = "load"
    /\ output.kind = "raise"

----------------------------------------------------------------------------
(* The request body *)

\* C26: the body scrape_js sends (blocking or async) has mode js and an
\* advanced block with render_js true, whether the caller supplied advanced
\* options or not and whatever their render_js was; without caller-supplied
\* options the block is that of AdvancedOptions(render_js=True), with
\* screenshot set when asked for; screenshot true in the block implies
\* render_js true.
C26_ScrapeJsForcesRenderJs ==
    (input.fn \in {"scrape_js", "async_scrape_js"} /\ output # Pending) =>
        /\ output.json["mode"] = PyStr("js")
        /\ "advanced" \in DOMAIN output.json
        /\ output.json["advanced"].v.render_js = PyBool(TRUE)
        /\ input.advanced = PyNone =>
              output.json["advanced"] =
                 PyDict(AdvancedToDict([AdvancedDefaults EXCEPT
                                         !.render_js = TRUE,
                                         !.screenshot = input.screenshot]))
        /\ output.json["advanced"].v.screenshot = PyBool(TRUE) =>
              output.json["advanced"].v.render_js = PyBool(TRUE)
        /\ input.screenshot => output.json["advanced"].v.screenshot = PyBool(TRUE)

\* the caller's options had render_js false, a screenshot was asked for, and
\* the body sent carries both as true
C26_Witness ==
    /\ input.fn = "async_scrape_js"
    /\ input.advanced # PyNone /\ ~input.advanced.fields.render_js
    /\ input.screenshot
    /\ output # Pending
    /\ output.json["advanced"].v.render_js = PyBool(TRUE)
    /\ output.json["advanced"].v.screenshot = PyBool(TRUE)

\* the optional parameters of the builder and, for each, whether the caller
\* left it absent
LeftAbsent(a, k) ==
    CASE k \in {"pdf_format"}   -> a.mode # PyStr("pdf")
      [] k \in {"ocr_language"} -> a.mode # PyStr("ocr")
      [] OTHER                  -> a[k] = PyNone

OptionalKeys ==
    {"cache_ttl", "advanced", "cost_controls", "formats", "extraction_schema",
     "extraction_prompt", "extraction_profile", "wait_for", "enable_scroll"}

\* no null among the values of the object f
NoNullIn(f) == \A k \in DOMAIN f : f[k] # PyNone

\* C27: the body the Request Builder produces has no key for an optional
\* field the caller left absent and no key whose value is null, at the top
\* level and inside the advanced and cost_controls blocks.
C27_NoNullNoAbsentKey ==
    (input.fn = "_build_scrape_payload" /\ output # Pending) =>
        /\ \A k \in OptionalKeys :
              LeftAbsent(input.args, k) => k \notin DOMAIN output.json
        /\ NoNullIn(output.json)
        /\ \A k \in DOMAIN output.json :
              output.json[k].kind = "dict" => NoNullIn(output.json[k].v)

----------------------------------------------------------------------------
(* The response parser *)

\* the payload is the parser's input and the parser has returned or raised
Parsed == input.fn = "_parse_scrape_response" /\ output # Pending

\* the billing payload of the input (empty when missing)
BillingPayload == Lookup(input.data, "billing", PyDict(EmptyDict)).v

\* C28: parsing a body raises no error on account of a missing field, for
\* any subset of missing fields; every missing field comes out as its
\* documented default (status 200, empty content, empty metadata and headers,
\* zero counters, extraction method algorithmic, billing with zero total cost
\* and tier "1") and every field present comes out as it is.
C28_DefaultsForMissingFields ==
    Parsed =>
        /\ output.kind = "raise" =>
              \/ ("billing" \in DOMAIN input.data /\ input.data["billing"].kind # "dict")
              \/ ("escalations" \in DOMAIN BillingPayload
                    /\ BillingPayload["escalations"].kind # "list")
        /\ output.kind # "raise" =>
              /\ output.kind = "ScrapeResult"
              /\ \A k \in DOMAIN FullBody :
                    output[k] = IF k \in DOMAIN input.data THEN input.data[k]
                                ELSE ScrapeResultDefault(k)
              /\ "status_code" \notin DOMAIN input.data => output["status_code"] = PyInt(200)
              /\ "content" \notin DOMAIN input.data => output["content"] = PyStr("")
              /\ "metadata" \notin DOMAIN input.data => output["metadata"] = PyDict(EmptyDict)
              /\ "headers" \notin DOMAIN input.data => output["headers"] = PyDict(EmptyDict)
              /\ "response_time_ms" \notin DOMAIN input.data =>
                    output["response_time_ms"] = PyInt(0)
              /\ "size_bytes" \notin DOMAIN input.data => output["size_bytes"] = PyInt(0)
              /\ "extraction_method" \notin DOMAIN input.data =>
                    output["extraction_method"] = PyStr("algorithmic")
              /\ output["billing"]["kind"] = "BillingDetails"
              /\ "total_credits" \notin DOMAIN BillingPayload =>
                    output["billing"]["total_credits"] = PyInt(0)
              /\ "tier_used" \notin DOMAIN BillingPayload =>
                    output["billing"]["tier_used"] = PyStr("1")
              /\ "escalations" \notin DOMAIN BillingPayload =>
                    output["billing"]["escalations"] = <<>>

\* the empty body was parsed
C28_Witness ==
    /\ Parsed /\ DOMAIN input.data = {}
    /\ output.kind = "ScrapeResult" /\ output["status_code"] = PyInt(200)
    /\ output["billing"]["tier_used"] = PyStr("1")

\* the escalations list of the input
EscalationsPayload == BillingPayload["escalations"].v

\* C29: the parsed escalations have the length of the payload's list and the
\* i-th is built from the i-th element of the payload: its tier, result and
\* credits when present, tier "1" and result "success" when missing.
C29_EscalationsInOrder ==
    (Parsed /\ output.kind = "ScrapeResult" /\ "escalations" \in DOMAIN BillingPayload) =>
        /\ Len(output["billing"]["escalations"]) = Len(EscalationsPayload)
        /\ \A i \in 1..Len(EscalationsPayload) :
              LET e == EscalationsPayload[i].v
                  x == output["billing"]["escalations"][i]
              IN  /\ x.tier = IF "tier" \in DOMAIN e THEN e["tier"] ELSE PyStr("1")
                  /\ x.result = IF "result" \in DOMAIN e THEN e["result"]
                                ELSE PyStr("success")
                  /\ x.credits = IF "credits" \in DOMAIN e THEN e["credits"] ELSE PyInt(0)

\* two escalations, the first without a tier and the second without a
\* result, came out in that order
C29_Witness ==
    /\ Parsed /\ output.kind = "ScrapeResult"
    /\ "escalations" \in DOMAIN BillingPayload
    /\ Len(EscalationsPayload) = 2
    /\ DOMAIN EscalationsPayload[1].v = {"result", "credits"}
    /\ DOMAIN EscalationsPayload[2].v = {"tier"}
    /\ output["billing"]["escalations"][1].tier = PyStr("1")
    /\ output["billing"]["escalations"][1].result = PyStr("failed")
    /\ output["billing"]["escalations"][2].tier = PyStr("3")
    /\ output["billing"]["escalations"][2].result = PyStr("success")

----------------------------------------------------------------------------
(* Error kinds *)

\* the kinds the transport surfaces: the five API kinds, AlterLabError for a
\* network failure or an empty retry range, and Python's ValueError out of a
\* Retry-After that is no number
TransportKinds == ApiErrorKinds \cup {"AlterLabError", "ValueError"}

\* the last poll reported the job failed, or succeeded without a result
JobFailure ==
    /\ Polled
    /\ \/ status.status = "failed"
       \/ status.status = "succeeded" /\ status.result = NoValue

\* the head of the poll loop found the deadline passed: the last poll left a
\* status that is not terminal and the call ended after the sleep
PollTimeout ==
    /\ Polled
    /\ status.status \notin {"failed", "succeeded"}
    /\ pc = "done"
    /\ DeadlinePassed(now, start_time, poll_timeout)

\* the send gave up: its last request got no response below 400
TransportFailure == ~GoodAnswer

----------------------------------------------------------------------------
(* The send's last attempt *)

\* the send left its loop with every attempt used
RetriesExhausted == Raised /\ attempt >= max_retries

\* C31: a send that used up its retries on a server error (status >= 500)
\* raises the generic API error with that status and, as its message, the
\* detail field of the response body when the body is JSON with that field,
\* the raw body text otherwise.
C31_ServerErrorDetail ==
    (RetriesExhausted /\ Answered /\ response.status_code >= 500) =>
        /\ result.error.kind = "AlterLabAPIError"
        /\ result.error.status_code = response.status_code
        /\ result.error.message = Detail(response)

\* C32: a send never sleeps after its final attempt: when it has ended, it
\* has slept fewer times than it has issued requests, whether the failures
\* were HTTP-level (429, >= 500) or network-level.
C32_NoSleepAfterLastAttempt ==
    (pc = "done" /\ requests > 0) => sleeps < requests

\* C33: every send issues at least one HTTP request before it returns or
\* raises, for every max_retries the constructor accepts (zero and negative
\* values included): the error a send raises is built from a response or a
\* network failure.
C33_AtLeastOneRequest ==
    pc = "done" =>
        /\ requests >= 1
        /\ (result.tag = "raise" => result.error # RequestFailed)

(* The poller's exits *)

\* C34: whenever a poll of wait_for_job yields a JobStatus that carries an
\* embedded result, the wait returns that result at that poll; a job
\* reported completed with a result ends the wait like a succeeded one.
C34_ResultEndsWait ==
    (Polled /\ status.result # NoValue) =>
        /\ pc = "done" /\ result.tag = "return"
        /\ result.value = status.result

\* the send of a poll is running
PollSending == Polling /\ polls > 0 /\ Sending

\* C35: when the send of a poll inside wait_for_job gives up (a terminal 4xx,
\* or its retries used up on 429, 5xx or network failures), the wait ends in
\* that very step with the transport's error: no further poll is issued, no
\* poll interval is slept, and the error is neither the scrape failure nor
\* the timeout.
C35_TransportErrorEndsWait ==
    [][(PollSending /\ ~Sending' /\ ~GoodAnswer') =>
          /\ Raised'
          /\ result'.error.kind \in TransportKinds
          /\ result'.error.kind \notin {"ScrapeError", "TimeoutError"}
          /\ TerminalAnswer' => result'.error = HandleErrorResponse(response')
          /\ RetriesExhausted' => result'.error = last_error'
          /\ polls' = polls /\ poll_sleeps' = poll_sleeps
          /\ pc' # "poll_sleep"]_vars

\* the second poll of a wait was answered 503 until its retries ran out: the
\* wait raised that error after one poll sleep and two polls
C35_Witness ==
    /\ op = "wait_for_job" /\ Raised /\ RetriesExhausted
    /\ polls = 2 /\ poll_sleeps = 1
    /\ Answered /\ response.status_code = 503
    /\ result.error.kind = "AlterLabAPIError"

----------------------------------------------------------------------------
(* Termination of the poller *)

\* wait_for_job alone, with its sends and sleeps
WaitNext ==
    \/ \E j \in JobIds, pi \in PollIntervals, pt \in PollTimeouts : WaitForJob(j, pi, pt)
    \/ \E r \in Replies : Attempt(r)
    \/ BackoffDone
    \/ PollSleepDone

\* every transport call returns or raises (client.request is answered), and
\* the clock advances: time.sleep returns after its duration
Progress ==
    /\ WF_vars(\E r \in Replies : Attempt(r))
    /\ WF_vars(BackoffDone)
    /\ WF_vars(PollSleepDone)

\* a client that makes no request, one that does not retry, one that retries
WaitInit ==
    /\ api_key = "k1"
    /\ base_url = DEFAULT_BASE_URL
    /\ timeout = DEFAULT_TIMEOUT
    /\ max_retries \in 0..2
    /\ retry_delay = DEFAULT_RETRY_DELAY
    /\ Constructed
    /\ NothingApplied

WaitSpec == WaitInit /\ [][WaitNext]_vars /\ Progress

\* C36: wait_for_job always ends: the clock advancing and every transport
\* call returning or raising, the call eventually returns a result or raises
\* (scrape failure, timeout or transport error), whatever statuses the
\* server reports and even when the job never reaches a terminal status.
C36_WaitEnds ==
    (op = "wait_for_job" /\ pc # "idle") ~>
        /\ pc = "done"
        /\ \/ result.tag = "return"
           \/ /\ result.tag = "raise"
              /\ result.error.kind \in TransportKinds \cup {"ScrapeError", "TimeoutError"}

\* a job that never left a non-terminal status: polled three times, the wait
\* ended with the timeout
C36_Witness ==
    /\ op = "wait_for_job" /\ Raised
    /\ result.error = TimeoutError(job_id, poll_timeout)
    /\ polls = 3 /\ nonterminal = 3 /\ poll_sleeps = 3

----------------------------------------------------------------------------
(* Frame of scrape_js *)

\* C37: scrape_js leaves the caller's AdvancedOptions object unchanged: after
\* the call every field of the object the caller passed, render_js and
\* screenshot included, has the value it had before the call.
C37_CallerOptionsUnchanged ==
    (input.fn \in {"scrape_js", "async_scrape_js"} /\ output # Pending) =>
        output.advanced = input.advanced

----------------------------------------------------------------------------
(* close() and aclose() against calls in flight on the same instance *)

\* Callers are threads (blocking methods) or tasks of one event loop (async
\* methods).  A thread may be preempted anywhere, so _get_client is two
\* steps for it: the test of self._client and the construction with its
\* assignment.  A task runs from one await to the next: it holds the loop
\* while it is ready to issue its request, and nothing else runs meanwhile.

CallerKinds == {"blocking", "async"}

\* what the server makes of a request: an answer that ends the call, one
\* that is retried after a sleep, a job status that is polled again
Outcomes == {"ok", "retry", "pending"}

\* no task other than i is running on the event loop
Quiet(i) ==
    \A j \in TaskIds \ {i} : ~(callers[j].kind = "async" /\ callers[j].pc = "ready")

\* the httpx client the caller c holds in its local variable `client`
StateOf(c) == IF c.kind = "blocking" THEN http[c.local] ELSE ahttp[c.local]

\* ... has not been closed (a close that is only scheduled has not run yet)
Usable(c) == StateOf(c) \in {"open", "scheduled"}

\* client = self._get_client() / self._get_async_client() at the entry of a
\* send, by caller i whose record becomes c
Acquire(i, c) ==
    IF c.kind = "blocking"
    THEN /\ callers' = [callers EXCEPT ![i] =
                IF client = 0 THEN [c EXCEPT !.pc = "creating"]
                ELSE [c EXCEPT !.pc = "ready", !.local = client]]
         /\ UNCHANGED lifevars
    ELSE /\ async_client = 0 => \E j \in ClientIds : ahttp[j] = "unused"
         /\ GetAsyncClientStep
         /\ callers' = [callers EXCEPT ![i] =
                [c EXCEPT !.pc = "ready",
                          !.local = GetOrCreate(async_client, ahttp)]]

\* caller i enters a method of the instance: a send begins
RaceCall(i, k) ==
    /\ Quiet(i)
    /\ callers[i].pc = "idle"
    /\ Acquire(i, [callers[i] EXCEPT !.kind = k, !.left = max_retries, !.polls = 1])
    /\ UNCHANGED <<cfgvars, callvars, sendvars, pollvars, pc, result, now, twin,
                   concvars, datavars>>

\* the thread that found self._client None constructs an httpx.Client and
\* assigns it
RaceCreate(i) ==
    /\ Quiet(i)
    /\ callers[i].pc = "creating"
    /\ \E j \in ClientIds : http[j] = "unused"
    /\ http' = Opened(http, FreshId(http))
    /\ client' = FreshId(http)
    /\ callers' = [callers EXCEPT ![i].pc = "ready", ![i].local = FreshId(http)]
    /\ UNCHANGED <<cfgvars, callvars, sendvars, pollvars, pc, result, now, twin,
                   concvars, datavars, async_client, ahttp, scope, propagated>>

\* the caller c after client.request was answered o (a closed client raises
\* instead of sending)
AfterRequest(c, o) ==
    IF ~Usable(c) THEN [c EXCEPT !.pc = "done"]
    ELSE CASE o = "ok" -> [c EXCEPT !.pc = "done"]
           [] o = "retry" ->
                 IF c.left > 1
                 THEN [c EXCEPT !.pc = "retry_sleep", !.left = c.left - 1]
                 ELSE [c EXCEPT !.pc = "done"]
           [] o = "pending" ->
                 IF c.polls < MaxPolls
                 THEN [c EXCEPT !.pc = "poll_sleep"]
                 ELSE [c EXCEPT !.pc = "done"]

\* client.request(...) on the caller's local client, answered o
RaceRequest(i, o) ==
    /\ callers[i].pc = "ready"
    /\ callers' = [callers EXCEPT ![i] = AfterRequest(callers[i], o)]
    /\ UNCHANGED <<cfgvars, callvars, sendvars, pollvars, pc, result, now, twin,
                   concvars, datavars, lifevars>>

\* the sleep of caller i ends: the retry loop goes on with the client it
\* obtained before the loop; the poll loop calls get_job_status, which begins
\* a send of its own
RaceWake(i) ==
    /\ Quiet(i)
    /\ callers[i].pc \in {"retry_sleep", "poll_sleep"}
    /\ IF callers[i].pc = "retry_sleep"
       THEN /\ callers' = [callers EXCEPT ![i].pc = "ready"]
            /\ UNCHANGED lifevars
       ELSE Acquire(i, [callers[i] EXCEPT !.left = max_retries,
                                          !.polls = callers[i].polls + 1])
    /\ UNCHANGED <<cfgvars, callvars, sendvars, pollvars, pc, result, now, twin,
                   concvars, datavars>>

\* close(), called while other callers are in flight
RaceClose(l) == Quiet(0) /\ Close(l)

\* aclose(), awaited while other callers are in flight
RaceAClose == Quiet(0) /\ AClose

\* the event loop runs the aclose() task that close() created
RaceCloseTask(i) == Quiet(0) /\ RunCloseTask(i)

RaceInit ==
    /\ api_key = "k1"
    /\ base_url = DEFAULT_BASE_URL
    /\ timeout = DEFAULT_TIMEOUT
    /\ max_retries \in 1..2
    /\ retry_delay = DEFAULT_RETRY_DELAY
    /\ Constructed
    /\ NothingApplied

RaceNext ==
    \/ \E i \in TaskIds, k \in CallerKinds : RaceCall(i, k)
    \/ \E i \in TaskIds : RaceCreate(i)
    \/ \E i \in TaskIds, o \in Outcomes : RaceRequest(i, o)
    \/ \E i \in TaskIds : RaceWake(i)
    \/ \E l \in LoopStates : RaceClose(l)
    \/ RaceAClose
    \/ \E i \in ClientIds : RaceCloseTask(i)

RaceSpec == RaceInit /\ [][RaceNext]_vars

\* C38: no HTTP request is ever issued on a client that has been closed,
\* however close() and aclose() interleave with a call in flight on the same
\* instance: the next request of that call goes to an open client.
C38_NoRequestOnClosedClient ==
    [][\A i \in TaskIds :
          (callers[i].pc = "ready" /\ callers'[i].pc # "ready") =>
              Usable(callers[i])]_vars

\* C39: at any moment the instance has at most one open blocking client and
\* at most one open async client, and every client ever created is the one
\* the instance holds or has been closed.
C39_OneOpenClientOfEachKind ==
    /\ Cardinality({i \in ClientIds : http[i] = "open"}) <= 1
    /\ Cardinality({i \in ClientIds : ahttp[i] \in {"open", "scheduled"}}) <= 1
    /\ \A i \in ClientIds : http[i] = "open" => client = i
    /\ \A i \in ClientIds : ahttp[i] \in {"open", "scheduled"} => async_client = i

====
